---- MODULE Spec2Model ----
(***************************************************************************)
(* Verification model of the incremental ("Phase 2") ingestion engine and  *)
(* of the silver / gold rebuilds of the fire-department ETL pipeline.      *)
(*                                                                         *)
(* Eight specifications share the module:                                  *)
(*   Spec          ledger, registry, lake, bronze loader and phase2_flow   *)
(*   SpecSilver    the silver rebuild (dedup) as a function of bronze      *)
(*   SpecGold      the gold dimension build as a function of silver        *)
(*   SpecPipeline  cleaner, gold builders and gates on loaded bronze       *)
(*   SpecFlow      the control flow of phase2_flow over task results       *)
(*   SpecBatch     Spec with the Phase 1 batch ingest on the same database *)
(*   SpecLoads     the loader on files whose headers differ                *)
(*   SpecColumns   the cleaners on bronze tables that lack columns         *)
(***************************************************************************)
EXTENDS Integers, Sequences, FiniteSets, TLC

(***************************************************************************)
(* Bounds of the model.                                                    *)
(***************************************************************************)
MaxRuns == 2

(***************************************************************************)
(* The drop zone.  A file is a name in the drop directory holding one of a *)
(* few contents; the content identifier stands for the SHA-256 of the      *)
(* bytes (the hash is taken to be injective).                              *)
(***************************************************************************)
FileNames == {"export.csv", "fire_calls.csv"}

Contents == {"hA", "hB", "hC"}

NoFile == "absent"

\* Header row of each content, as written in the CSV.
Header(c) ==
  CASE c = "hA" -> <<"call_number", "received_dt_tm">>
    [] c = "hB" -> <<"call_number", "incident_number">>
    [] c = "hC" -> <<"Call Number", "Unit ID">>

\* Number of data rows of each content.
NRows(c) ==
  CASE c = "hA" -> 2
    [] c = "hB" -> 1
    [] c = "hC" -> 1

Range(s) == {s[i] : i \in 1..Len(s)}

(***************************************************************************)
(* utils.sanitize_column_name on the column names that occur: separators   *)
(* become '_', CamelCase boundaries get '_', runs of '_' collapse, the     *)
(* result is lower-cased and leading / trailing '_' are stripped.          *)
(***************************************************************************)
sanitize_column_name(col) ==
  CASE col = "Call Number"          -> "call_number"
    [] col = "Unit ID"              -> "unit_id"
    [] col = "_source_row_number"   -> "source_row_number"
    [] col = "_source_sha256"       -> "source_sha256"
    [] col = "_source_file_path"    -> "source_file_path"
    [] col = "_lake_written_at_utc" -> "lake_written_at_utc"
    [] OTHER                        -> col

sanitize_columns(columns) == [i \in 1..Len(columns) |-> sanitize_column_name(columns[i])]

(***************************************************************************)
(* Paths.  A path is a record; kind "csv" is a file of the drop directory, *)
(* kind "lake" a parquet snapshot <root>/<dataset>/.../sha256=<sha>/       *)
(* data.parquet, kind "null" the SQL NULL of ingestion_log.lake_path.      *)
(***************************************************************************)
CsvPath(f) == [kind |-> "csv", dir |-> "Client_drop", leaf |-> f]

NullPath == [kind |-> "null", dir |-> "", leaf |-> ""]

\* Lake_writer._lake_target_path (the ingest_date partition is one fixed day)
_lake_target_path(dataset, file_sha256) ==
  [kind |-> "lake", dir |-> dataset, leaf |-> file_sha256]

\* The substrings, among those the detection rules look for, of a lower-cased string.
SubstringsOf(s) ==
  CASE s = "fire_calls.csv" -> {"call", "calls", "fire_calls"}
    [] s = "fire_calls"     -> {"call", "calls", "fire_calls"}
    [] s = "fire_incidents" -> {"incident", "incidents", "fire_incidents"}
    [] OTHER                -> {}

\* `sub in path.lower()` over the whole path
InPath(sub, path) == sub \in (SubstringsOf(path.dir) \cup SubstringsOf(path.leaf))

\* `sub in Path(path).name.lower()`: the last component only
InName(sub, path) ==
  sub \in (IF path.kind = "csv" THEN SubstringsOf(path.leaf) ELSE {})

(***************************************************************************)
(* State.                                                                  *)
(***************************************************************************)
VARIABLES
  dropDir,    \* drop directory: file name -> content, or NoFile
  runs,       \* meta.ingestion_runs: sequence of run records (run_id = index)
  log,        \* meta.ingestion_log: sequence of ledger entries (log_id = index)
  registry,   \* meta.ingested_contents: set of [pipeline, sha]
  lake,       \* data lake: set of snapshot paths written
  bronzeCols, \* bronze.<dataset>: column list, or <<>> when the table is absent
  bronze,     \* bronze.<dataset>: sequence of rows
  task,       \* the task invocation in progress
  flow,       \* phase2_flow: its position and the stages it has invoked
  silver,     \* silver.calls_clean, silver.incidents_clean and the last cleaner
  gold        \* the gold dimensions, gold.fact_incident and the last gold task

vars == <<dropDir, runs, log, registry, lake, bronzeCols, bronze, task, flow,
          silver, gold>>

Datasets == {"calls", "incidents"}

PipelineName == "phase2_incremental"

IdleTask == [name |-> "idle", run |-> 0, todo |-> {}, phase |-> "", cur |-> 0,
             before |-> 0, after |-> 0, dataset |-> "",
             inserted_calls |-> 0, inserted_incidents |-> 0]

IdleFlow == [pc |-> "idle", run |-> 0, invoked |-> <<>>, outcome |-> ""]

\* No silver table and no gold table exists yet.
NoSilver == [calls_clean |-> {}, incidents_clean |-> {}, exists |-> {},
             task |-> "none"]

GoldTables == {"dim_date", "dim_incident_type", "dim_location", "fact_incident"}

\* src[t] is the contents of the silver tables that gold table t was last
\* built from (empty when the table does not exist).
NoGold == [dim_date |-> {}, dim_incident_type |-> {}, dim_location |-> {},
           fact_incident |-> {}, exists |-> {}, task |-> "none",
           src |-> [t \in GoldTables |-> <<>>]]

Init ==
  /\ dropDir = [f \in FileNames |-> NoFile]
  /\ runs = <<>>
  /\ log = <<>>
  /\ registry = {}
  /\ lake = {}
  /\ bronzeCols = [d \in Datasets |-> <<>>]
  /\ bronze = [d \in Datasets |-> <<>>]
  /\ task = IdleTask
  /\ flow = IdleFlow
  /\ silver = NoSilver
  /\ gold = NoGold

(***************************************************************************)
(* Environment: files appear in and disappear from the drop directory      *)
(* between task invocations.  A file is never modified in place: the       *)
(* content a PENDING ledger entry recorded for a name is the content later *)
(* read under that name, if the file is still there.                       *)
(***************************************************************************)
DropFile(f, c) ==
  /\ task.name = "idle"
  /\ UNCHANGED <<silver, gold>>
  /\ flow.pc = "idle"
  /\ dropDir[f] = NoFile
  /\ \A k \in 1..Len(log) :
       (log[k].file = f /\ log[k].status = "PENDING") => log[k].sha = c
  /\ dropDir' = [dropDir EXCEPT ![f] = c]
  /\ UNCHANGED <<runs, log, registry, lake, bronzeCols, bronze, task, flow>>

RemoveFile(f) ==
  /\ task.name = "idle"
  /\ UNCHANGED <<silver, gold>>
  /\ flow.pc = "idle"
  /\ dropDir[f] # NoFile
  /\ dropDir' = [dropDir EXCEPT ![f] = NoFile]
  /\ UNCHANGED <<runs, log, registry, lake, bronzeCols, bronze, task, flow>>

(***************************************************************************)
(* ingestion_meta.py: the drop-zone detector.                              *)
(***************************************************************************)
\* _scan_drop_zone: the *.csv files of the directory, sorted
_scan_drop_zone ==
  SelectSeq(<<"export.csv", "fire_calls.csv">>, LAMBDA f : dropDir[f] # NoFile)

\* Mutant: the registry lookup never finds the content.
MutNeverIngested(pipeline_name, sha256) == FALSE

_is_already_successfully_ingested(pipeline_name, sha256) ==
  [pipeline |-> pipeline_name, sha |-> sha256] \in registry

\* Mutant: a file is skipped by its name (a DONE entry of that name exists),
\* not by its content hash.
MutScanEntryByName(r, f, fpFail) ==
  IF f \in fpFail
    THEN [run |-> r, file |-> f, sha |-> "", status |-> "FAILED",
          lake_path |-> NullPath, error_message |-> "exception"]
    ELSE IF \E j \in 1..Len(log) : log[j].file = f /\ log[j].status = "DONE"
      THEN [run |-> r, file |-> f, sha |-> dropDir[f], status |-> "SKIPPED",
            lake_path |-> NullPath, error_message |-> "already_ingested"]
      ELSE [run |-> r, file |-> f, sha |-> dropDir[f], status |-> "PENDING",
            lake_path |-> NullPath, error_message |-> ""]

\* The ledger entry the scan loop writes for file f of run r; fpFail are the
\* files whose fingerprint raises.
ScanEntry(r, f, fpFail) ==
  IF f \in fpFail
    THEN [run |-> r, file |-> f, sha |-> "", status |-> "FAILED",
          lake_path |-> NullPath, error_message |-> "exception"]
    ELSE IF _is_already_successfully_ingested(PipelineName, dropDir[f])
      THEN [run |-> r, file |-> f, sha |-> dropDir[f], status |-> "SKIPPED",
            lake_path |-> NullPath, error_message |-> "already_ingested"]
      ELSE [run |-> r, file |-> f, sha |-> dropDir[f], status |-> "PENDING",
            lake_path |-> NullPath, error_message |-> ""]

CountStatus(entries, st) ==
  Cardinality({i \in 1..Len(entries) : entries[i].status = st})

\* Mutant: the scan loop ends at the first file whose fingerprint raises.
MutScanStopsAtFailure(r, fpFail) ==
  LET files == _scan_drop_zone
      stop  == {i \in 1..Len(files) : files[i] \in fpFail}
      last  == IF stop = {} THEN Len(files)
               ELSE CHOOSE i \in stop : \A j \in stop : i <= j
  IN  [i \in 1..last |-> ScanEntry(r, files[i], fpFail)]

\* The entries the scan loop of run r writes, in scan order.
ScanEntries(r, fpFail) ==
  LET files == _scan_drop_zone
  IN  [i \in 1..Len(files) |-> ScanEntry(r, files[i], fpFail)]

\* The summary detect_and_log_client_drop returns (raised: it re-raised instead).
DetectInfo(fpFail, scanOk) ==
  LET r       == Len(runs) + 1
      entries == ScanEntries(r, fpFail)
  IN  IF scanOk
        THEN [run_id |-> r, raised |-> FALSE,
              pending |-> CountStatus(entries, "PENDING"),
              skipped |-> CountStatus(entries, "SKIPPED"),
              failed |-> CountStatus(entries, "FAILED"),
              files |-> Len(entries)]
        ELSE [run_id |-> r, raised |-> TRUE, pending |-> 0, skipped |-> 0,
              failed |-> 0, files |-> 0]

\* detect_and_log_client_drop: _start_run, the scan loop, _finish_run.
\* scanOk = FALSE is an exception escaping the scan loop.
\* _start_run: INSERT INTO ingestion_runs ... VALUES (..., 'RUNNING', ...);
\* the run id is the position of the record
_start_run(rs) == Append(rs, [status |-> "RUNNING"])

\* Mutant: the UPDATE without its WHERE run_id = ?
MutFinishAllRuns(rs, run_id, status) == [r \in DOMAIN rs |-> [status |-> status]]

\* _finish_run: UPDATE ingestion_runs SET status = ? WHERE run_id = ?
_finish_run(rs, run_id, status) == [rs EXCEPT ![run_id].status = status]

DetectEffect(fpFail, scanOk) ==
  LET started == _start_run(runs)
      run_id  == Len(started)
  IN  IF scanOk
        THEN /\ runs' = _finish_run(started, run_id, "SUCCESS")
             /\ log' = log \o ScanEntries(run_id, fpFail)
        ELSE /\ runs' = _finish_run(started, run_id, "FAILED")
             /\ log' = log

PresentFiles == {f \in FileNames : dropDir[f] # NoFile}

\* The task invoked on its own.
detect_and_log_client_drop ==
  /\ task.name = "idle"
  /\ UNCHANGED <<silver, gold>>
  /\ flow.pc = "idle"
  /\ Len(runs) < MaxRuns
  /\ \E fpFail \in SUBSET PresentFiles, scanOk \in BOOLEAN :
       DetectEffect(fpFail, scanOk)
  /\ UNCHANGED <<dropDir, registry, lake, bronzeCols, bronze, task, flow>>

(***************************************************************************)
(* How a task invocation ends.  A task runs either on its own (flow.pc =   *)
(* "idle") or as the current stage of phase2_flow.  An exception is not    *)
(* retried (retries=0) and ends the flow run.                              *)
(***************************************************************************)
InFlow == flow.pc # "idle"

\* Mutant: the exception of a stage is swallowed; the flow stays where it is.
MutFlowGoesOn == [flow EXCEPT !.outcome = "failed"]

FlowRaised == [flow EXCEPT !.pc = "idle", !.outcome = "failed"]

\* rows of the run with status PENDING, as both tasks select them
PendingRows(run_id, pipeline_name) ==
  {k \in 1..Len(log) : log[k].run = run_id /\ log[k].status = "PENDING"}

\* The flow invokes the stage it is at; ingest_bronze_incremental is also run
\* on its own, for any run id (a re-run after a failure or a crash).
MayInvoke(stage, run_id) ==
  /\ task.name = "idle"
  /\ \/ flow.pc = "idle" /\ stage = "bronze" /\ run_id \in 1..Len(runs)
     \/ flow.pc = stage /\ run_id = flow.run

Invoked(stage) == IF InFlow THEN [flow EXCEPT !.invoked = Append(@, stage)] ELSE flow

(***************************************************************************)
(* Lake_writer.py                                                          *)
(***************************************************************************)
\* Lake_writer._detect_dataset_type
LakeDetectDatasetType(cols, file_path) ==
  IF "incident_number" \in Range(cols) THEN "fire_incidents"
  ELSE IF "call_number" \in Range(cols) THEN "fire_calls"
  ELSE IF InName("incident", file_path) THEN "fire_incidents"
  ELSE IF InName("call", file_path) THEN "fire_calls"
  ELSE "fire_incidents"

\* write_pending_to_lake: select the PENDING rows of the run.
LakeBegin(run_id) ==
  /\ MayInvoke("lake", run_id)
  /\ UNCHANGED <<silver, gold>>
  /\ LET rows == PendingRows(run_id, PipelineName)
     IN  IF rows = {}
           THEN /\ task' = task
                /\ flow' = IF InFlow THEN [Invoked("lake") EXCEPT !.pc = "bronze"]
                           ELSE flow
           ELSE /\ task' = [IdleTask EXCEPT !.name = "lake", !.run = run_id,
                                            !.todo = rows]
                /\ flow' = Invoked("lake")
  /\ UNCHANGED <<dropDir, runs, log, registry, lake, bronzeCols, bronze>>

\* One iteration of the loop of write_pending_to_lake: read the CSV, write
\* the parquet, update lake_path of the run's rows with that hash.
LakeWriteFile(k) ==
  /\ task.name = "lake"
  /\ UNCHANGED <<silver, gold>>
  /\ k \in task.todo
  /\ LET f        == log[k].file
         csv_path == CsvPath(f)
     IN  IF dropDir[f] = NoFile
           THEN \* pl.read_csv raises: the task fails
                /\ task' = IdleTask
                /\ flow' = IF InFlow THEN FlowRaised ELSE flow
                /\ UNCHANGED <<lake, log>>
           ELSE LET cols    == sanitize_columns(Header(dropDir[f]))
                    dataset == LakeDetectDatasetType(cols, csv_path)
                    target  == _lake_target_path(dataset, log[k].sha)
                    rest    == task.todo \ {k}
                IN  /\ lake' = lake \cup {target}
                    /\ log' = [j \in 1..Len(log) |->
                                 IF log[j].run = task.run /\ log[j].sha = log[k].sha
                                   THEN [log[j] EXCEPT !.lake_path = target]
                                   ELSE log[j]]
                    /\ IF rest = {}
                         THEN /\ task' = IdleTask
                              /\ flow' = IF InFlow THEN [flow EXCEPT !.pc = "bronze"]
                                         ELSE flow
                         ELSE /\ task' = [task EXCEPT !.todo = rest]
                              /\ flow' = flow
  /\ UNCHANGED <<dropDir, runs, registry, bronzeCols, bronze>>

(***************************************************************************)
(* bronze_schedule.py: the incremental bronze loader.                      *)
(***************************************************************************)
tech_cols ==
  <<"_source_row_number", "_source_sha256", "_source_file_path", "_ingested_at_utc">>

\* _source_relation: read_parquet for a lake snapshot, read_csv_auto otherwise
_source_relation(source_path) ==
  IF source_path.kind = "lake" THEN "read_parquet" ELSE "read_csv_auto"

\* Whether the source file can be opened.
SourceReadable(source_path) ==
  IF _source_relation(source_path) = "read_parquet"
    THEN source_path \in lake
    ELSE dropDir[source_path.leaf] # NoFile

SourceContent(source_path) ==
  IF _source_relation(source_path) = "read_parquet"
    THEN source_path.leaf
    ELSE dropDir[source_path.leaf]

\* The column names of the source relation.  A lake snapshot holds the
\* sanitized CSV columns behind the row index, followed by the provenance
\* columns write_pending_to_lake stamps.
RelationColumns(source_path) ==
  IF _source_relation(source_path) = "read_parquet"
    THEN <<"_source_row_number">>
           \o sanitize_columns(Header(SourceContent(source_path)))
           \o <<"_source_sha256", "_source_file_path", "_lake_written_at_utc">>
    ELSE Header(SourceContent(source_path))

_get_source_cols_duckdb(source_path) == sanitize_columns(RelationColumns(source_path))

\* bronze_schedule._detect_dataset_type
_detect_dataset_type(cols, source_path) ==
  LET has_call == "call_number" \in Range(cols) \/ "callnumber" \in Range(cols)
      has_inc  == "incident_number" \in Range(cols) \/ "incidentnumber" \in Range(cols)
  IN  IF has_inc /\ has_call
        THEN IF InPath("fire_calls", source_path) \/ InPath("calls", source_path)
                  \/ InPath("call", source_path)
               THEN "calls"
               ELSE "incidents"
      ELSE IF has_inc THEN "incidents"
      ELSE IF has_call THEN "calls"
      ELSE IF InPath("incident", source_path) THEN "incidents"
      ELSE IF InPath("call", source_path) THEN "calls"
      ELSE "incidents"

\* The SELECT list CAST("<c>" AS VARCHAR) binds only if every sanitized name
\* is a column of the source relation.
SelectBinds(src_cols, source_path) ==
  \A c \in Range(src_cols) : c \in Range(RelationColumns(source_path))

_table_exists(target) == bronzeCols[target] # <<>>

\* Mutant: the INSERT without its anti-join.
MutNoAntiJoin(rows, t) == TRUE

\* WHERE NOT EXISTS (... b._source_sha256 = t._source_sha256
\*                       AND b._source_row_number = t._source_row_number)
NotExistsInTarget(rows, t) ==
  ~ \E i \in 1..Len(rows) : rows[i].sha = t.sha /\ rows[i].rn = t.rn

\* Mutant: the source is read like its header probe, without the last data row.
MutSourceRowsShort(file_sha256, source_path) ==
  [i \in 1..(NRows(SourceContent(source_path)) - 1) |->
     [rn |-> i - 1, sha |-> file_sha256, path |-> source_path]]

\* The source rows as the INSERT's inner SELECT yields them.
SourceRows(file_sha256, source_path) ==
  [i \in 1..NRows(SourceContent(source_path)) |->
     [rn |-> i - 1, sha |-> file_sha256, path |-> source_path]]

\* Mutant: the anti-join is keyed by (source path, row number), not by
\* (content hash, row number).
MutInsertedRows(rows, file_sha256, source_path) ==
  SelectSeq(SourceRows(file_sha256, source_path),
            LAMBDA t : ~ \E i \in 1..Len(rows) : rows[i].path = t.path /\ rows[i].rn = t.rn)

\* Step 8: the rows the idempotent INSERT appends to the target.
InsertedRows(rows, file_sha256, source_path) ==
  SelectSeq(SourceRows(file_sha256, source_path),
            LAMBDA t : NotExistsInTarget(rows, t))

CountForSha(rows, file_sha256) ==
  Cardinality({i \in 1..Len(rows) : rows[i].sha = file_sha256})

\* Mutant: the exception of a task is swallowed and the flow stays at the stage.
MutTaskRetried ==
  /\ task' = IdleTask
  /\ flow' = flow

\* An exception leaves the task; retries=0: the flow run ends with it.
TaskRaised ==
  /\ task' = IdleTask
  /\ flow' = IF InFlow THEN FlowRaised ELSE flow

\* ingest_bronze_incremental: select the PENDING rows of the run.
IngestBegin(run_id) ==
  /\ MayInvoke("bronze", run_id)
  /\ UNCHANGED <<silver, gold>>
  /\ LET rows == PendingRows(run_id, PipelineName)
     IN  IF rows = {}
           THEN /\ task' = task
                /\ flow' = IF InFlow
                             THEN [Invoked("bronze") EXCEPT !.pc = "idle",
                                     !.outcome = "skipped_downstream"]
                             ELSE flow
           ELSE /\ task' = [IdleTask EXCEPT !.name = "bronze", !.run = run_id,
                                            !.todo = rows, !.phase = "insert"]
                /\ flow' = Invoked("bronze")
  /\ UNCHANGED <<dropDir, runs, log, registry, lake, bronzeCols, bronze>>

\* Steps 1-9 of the loop body for ledger row k.
IngestFile(k) ==
  /\ task.name = "bronze"
  /\ UNCHANGED <<silver, gold>>
  /\ task.phase = "insert"
  /\ k \in task.todo
  /\ LET source_path == IF log[k].lake_path # NullPath THEN log[k].lake_path
                        ELSE CsvPath(log[k].file)
         file_sha256 == log[k].sha
     IN  IF ~ SourceReadable(source_path)
           THEN \* DESCRIBE raises
                TaskRaised /\ UNCHANGED <<bronzeCols, bronze>>
           ELSE
             LET src_cols == _get_source_cols_duckdb(source_path)
                 dataset  == _detect_dataset_type(src_cols, source_path)
                 binds    == SelectBinds(src_cols, source_path)
                 desired_cols  == src_cols \o tech_cols
                 created       == IF _table_exists(dataset) THEN bronzeCols[dataset]
                                  ELSE desired_cols
                 new_cols      == SelectSeq(desired_cols,
                                            LAMBDA c : c \notin Range(created))
                 existing_cols == created \o new_cols
                 before_for_sha == CountForSha(bronze[dataset], file_sha256)
                 inserted == InsertedRows(bronze[dataset], file_sha256, source_path)
                 after_for_sha == before_for_sha + Len(inserted)
             IN  IF ~ binds /\ ~ _table_exists(dataset)
                   THEN \* CREATE TABLE ... AS SELECT raises a binder error
                        TaskRaised /\ UNCHANGED <<bronzeCols, bronze>>
                   ELSE IF ~ binds
                     THEN \* the columns are added, then the INSERT raises
                          /\ bronzeCols' = [bronzeCols EXCEPT ![dataset] = existing_cols]
                          /\ TaskRaised
                          /\ UNCHANGED bronze
                     ELSE /\ bronzeCols' = [bronzeCols EXCEPT ![dataset] = existing_cols]
                          /\ bronze' = [bronze EXCEPT ![dataset] = @ \o inserted]
                          /\ task' = [task EXCEPT !.phase = "mark", !.cur = k,
                                        !.dataset = dataset,
                                        !.before = before_for_sha,
                                        !.after = after_for_sha]
                          /\ flow' = flow
  /\ UNCHANGED <<dropDir, runs, log, registry, lake>>

\* Mutant: the UPDATE is keyed by the run alone.
MutMarkedDoneWholeRun(j, run_id, pipeline_name, file_sha256) ==
  log[j].run = run_id

\* Mutant: the UPDATE is keyed by the content hash alone, in every run.
MutMarkedDoneAnyRun(j, run_id, pipeline_name, file_sha256) ==
  log[j].sha = file_sha256

\* The ledger rows _mark_done_and_upsert_success sets to DONE.
MarkedDone(j, run_id, pipeline_name, file_sha256) ==
  log[j].run = run_id /\ log[j].sha = file_sha256

\* The counters, then _mark_done_and_upsert_success, then the next row or
\* the return of the task.
IngestMark ==
  /\ task.name = "bronze"
  /\ UNCHANGED <<silver, gold>>
  /\ task.phase = "mark"
  /\ LET k            == task.cur
         file_sha256  == log[k].sha
         inserted_now == task.after - task.before
         calls_n      == task.inserted_calls
                           + (IF task.dataset = "calls" THEN inserted_now ELSE 0)
         incidents_n  == task.inserted_incidents
                           + (IF task.dataset = "calls" THEN 0 ELSE inserted_now)
         rest         == task.todo \ {k}
     IN  /\ log' = [j \in 1..Len(log) |->
                      IF MarkedDone(j, task.run, PipelineName, file_sha256)
                        THEN [log[j] EXCEPT !.status = "DONE", !.error_message = ""]
                        ELSE log[j]]
         /\ registry' = registry \cup {[pipeline |-> PipelineName, sha |-> file_sha256]}
         /\ IF rest # {}
              THEN /\ task' = [task EXCEPT !.phase = "insert", !.todo = rest,
                                 !.inserted_calls = calls_n,
                                 !.inserted_incidents = incidents_n]
                   /\ flow' = flow
              ELSE /\ task' = IdleTask
                   /\ flow' = IF ~ InFlow THEN flow
                              ELSE IF calls_n + incidents_n = 0
                                THEN [flow EXCEPT !.pc = "idle",
                                        !.outcome = "skipped_downstream"]
                                ELSE [flow EXCEPT !.pc = "silver"]
  /\ UNCHANGED <<dropDir, runs, lake, bronzeCols, bronze>>

(***************************************************************************)
(* run_pipeline_scheduled.py: phase2_flow, STEP1 and the no-op branch.     *)
(* The later steps are the task invocations above with flow.pc at them.    *)
(***************************************************************************)
\* Mutant: the no-op branch is taken on an empty directory, not on pending = 0.
MutFlowAfterDetect(info) ==
  LET f0 == [pc |-> "idle", run |-> info.run_id, invoked |-> <<"detect">>,
             outcome |-> ""]
  IN  IF info.raised THEN [f0 EXCEPT !.outcome = "failed"]
      ELSE IF info.files = 0 THEN [f0 EXCEPT !.outcome = "noop"]
      ELSE [f0 EXCEPT !.pc = "lake"]

\* Lines 16-22: the flow's state after STEP1 returned `info` (or raised).
FlowAfterDetect(info) ==
  LET f0 == [pc |-> "idle", run |-> info.run_id, invoked |-> <<"detect">>,
             outcome |-> ""]
  IN  IF info.raised THEN [f0 EXCEPT !.outcome = "failed"]
      ELSE IF info.pending = 0 THEN [f0 EXCEPT !.outcome = "noop"]
      ELSE [f0 EXCEPT !.pc = "lake"]

FlowDetect ==
  /\ task.name = "idle"
  /\ UNCHANGED <<silver, gold>>
  /\ flow.pc = "idle"
  /\ Len(runs) < MaxRuns
  /\ \E fpFail \in SUBSET PresentFiles, scanOk \in BOOLEAN :
       /\ DetectEffect(fpFail, scanOk)
       /\ flow' = FlowAfterDetect(DetectInfo(fpFail, scanOk))
  /\ UNCHANGED <<dropDir, registry, lake, bronzeCols, bronze, task>>

\* The process dies between the INSERT of a file and its mark-done step.
Crash ==
  /\ task.name = "bronze"
  /\ UNCHANGED <<silver, gold>>
  /\ task.phase = "mark"
  /\ task' = IdleTask
  /\ flow' = IF InFlow THEN [flow EXCEPT !.pc = "idle", !.outcome = "crashed"]
             ELSE flow
  /\ UNCHANGED <<dropDir, runs, log, registry, lake, bronzeCols, bronze>>

Next ==
  \/ \E f \in FileNames, c \in Contents : DropFile(f, c)
  \/ \E f \in FileNames : RemoveFile(f)
  \/ detect_and_log_client_drop
  \/ FlowDetect
  \/ \E r \in 1..MaxRuns : LakeBegin(r)
  \/ \E k \in 1..Len(log) : LakeWriteFile(k)
  \/ \E r \in 1..MaxRuns : IngestBegin(r)
  \/ \E k \in 1..Len(log) : IngestFile(k)
  \/ IngestMark
  \/ Crash

Spec == Init /\ [][Next]_vars

(***************************************************************************)
(* Properties of the ingestion engine (specification Spec).                *)
(***************************************************************************)
AtMark == task.name = "bronze" /\ task.phase = "mark"

EntriesWithSha(h) == {j \in 1..Len(log) : log[j].sha = h}

\* C1: when the loader processes a file whose rows are already in the target
\* table (a re-run on a row still PENDING, e.g. after a crash between the
\* INSERT and the mark-done step), the INSERT adds zero rows; the table holds
\* exactly the source's row count for that hash, as after a single run.
C1_ReingestInsertsNothing ==
  AtMark =>
    /\ task.after = NRows(log[task.cur].sha)
    /\ CountForSha(bronze[task.dataset], log[task.cur].sha) = NRows(log[task.cur].sha)
    /\ (task.before > 0 => task.after - task.before = 0)

\* a second INSERT for the one ledger row of that content, still PENDING
C1_Witness ==
  /\ AtMark
  /\ task.before > 0
  /\ task.after = task.before
  /\ log[task.cur].status = "PENDING"
  /\ EntriesWithSha(log[task.cur].sha) = {task.cur}

\* The new ledger entries of a detection step.
NewEntries == (Len(log) + 1)..Len(log')

IsDetectStep == Len(runs') = Len(runs) + 1

\* C2: once the loader has completed a file (its ledger entry is DONE), every
\* later detection cycle logs each file holding the same content as SKIPPED,
\* whatever its name, and the loader run for a cycle never has a content that
\* the cycle logged as SKIPPED on its list: it inserts no row of that content.
C2_RedropIsSkipped ==
  /\ [][IsDetectStep =>
          \A j \in 1..Len(log), k \in NewEntries :
            (log[j].status = "DONE" /\ log'[k].sha = log[j].sha)
              => log'[k].status = "SKIPPED"]_vars
  /\ [](\A k \in 1..Len(log), j \in task.todo :
          (log[k].status = "SKIPPED" /\ task.run = log[k].run)
            => log[j].sha # log[k].sha)

\* a content loaded by an earlier run was found again under another name and
\* skipped, and the loader of that later run is inserting other content
C2_Witness ==
  \E j, k \in 1..Len(log) :
    /\ log[j].status = "DONE"
    /\ log[k].status = "SKIPPED"
    /\ log[k].sha = log[j].sha
    /\ log[k].run > log[j].run
    /\ log[k].file # log[j].file
    /\ AtMark
    /\ task.run = log[k].run
    /\ task.after > task.before

\* C3: in every reachable state no two rows of a bronze table share the pair
\* (_source_sha256, _source_row_number).
C3_UniqueShaRowNumber ==
  \A d \in Datasets : \A i, j \in 1..Len(bronze[d]) :
    (bronze[d][i].sha = bronze[d][j].sha /\ bronze[d][i].rn = bronze[d][j].rn)
      => i = j

\* two files with identical content in one scan: the second is loaded after
\* the first was marked DONE (which marked both), into the same table
C3_Witness ==
  /\ AtMark
  /\ task.before > 0
  /\ log[task.cur].status = "DONE"
  /\ \E j \in 1..Len(log) :
       j # task.cur /\ log[j].run = task.run /\ log[j].sha = log[task.cur].sha

\* C4: a detection run writes, for every file of the drop directory whose
\* fingerprint was computed, exactly one ledger entry of that run; its status
\* is SKIPPED iff the content hash is in ingested_contents for the pipeline
\* at scan time, and PENDING otherwise.
C4_DetectClassifies ==
  [][\A fpFail \in SUBSET PresentFiles :
       (IsDetectStep /\ DetectEffect(fpFail, TRUE)) =>
         \A f \in PresentFiles \ fpFail :
           LET es == {k \in NewEntries : log'[k].file = f}
           IN  /\ Cardinality(es) = 1
               /\ \A k \in es :
                    /\ log'[k].run = Len(runs')
                    /\ log'[k].sha = dropDir[f]
                    /\ log'[k].status =
                         IF [pipeline |-> PipelineName, sha |-> dropDir[f]] \in registry
                           THEN "SKIPPED" ELSE "PENDING"]_vars

\* one scan that logged a registered content as SKIPPED and a new one as PENDING
C4_Witness ==
  \E j, k \in 1..Len(log) :
    /\ log[j].run = log[k].run
    /\ log[j].status = "SKIPPED"
    /\ log[k].status = "PENDING"
    /\ [pipeline |-> PipelineName, sha |-> log[j].sha] \in registry
    /\ [pipeline |-> PipelineName, sha |-> log[k].sha] \notin registry

\* C5: when the detection cycle of a flow run returns with zero PENDING files
\* (every file SKIPPED or FAILED, or no file), the flow has invoked no stage
\* after detection, it has ended, and the run record is SUCCESS.
C5_NoPendingIsNoOp ==
  (/\ flow.run # 0
   /\ flow.outcome # "failed"
   /\ \A k \in 1..Len(log) :
        log[k].run = flow.run => log[k].status \in {"SKIPPED", "FAILED"})
  => /\ flow.invoked = <<"detect">>
     /\ flow.pc = "idle"
     /\ flow.outcome = "noop"
     /\ runs[flow.run].status = "SUCCESS"

\* a flow run whose scan found only content that was already ingested
C5_Witness ==
  /\ flow.outcome = "noop"
  /\ \E k \in 1..Len(log) : log[k].run = flow.run /\ log[k].status = "SKIPPED"

\* The step in which the processing of ledger row k raises.
RaisesOn(k) ==
  /\ task.name = "bronze"
  /\ task.phase = "insert"
  /\ k \in task.todo
  /\ IngestFile(k)
  /\ task'.name = "idle"

\* The raise ends the task, is not retried, and ends the flow run at this stage.
RaisePropagates ==
  /\ task' = IdleTask
  /\ InFlow => /\ flow'.pc = "idle"
               /\ flow'.outcome = "failed"
               /\ flow'.invoked = flow.invoked

RunMarkedDone(run_id, h, entries) ==
  \E j \in 1..Len(entries) :
    entries[j].run = run_id /\ entries[j].sha = h /\ entries[j].status = "DONE"

AllRowsIn(rows, h) ==
  \A n \in 0..(NRows(h) - 1) :
    \E i \in 1..Len(rows) : rows[i].sha = h /\ rows[i].rn = n

\* C7: an entry (pipeline, hash) enters ingested_contents only in a step
\* taken after an INSERT for that content completed, with every source row of
\* the content in a bronze table at that moment.
C7_RegisteredAfterInsert ==
  [][\A h \in Contents :
       (/\ [pipeline |-> PipelineName, sha |-> h] \notin registry
        /\ [pipeline |-> PipelineName, sha |-> h] \in registry')
       => /\ AtMark
          /\ log[task.cur].sha = h
          /\ AllRowsIn(bronze[task.dataset], h)
          /\ bronze' = bronze]_vars

\* a registered two-row content with both rows in bronze.calls
C7_Witness ==
  /\ [pipeline |-> PipelineName, sha |-> "hA"] \in registry
  /\ AllRowsIn(bronze["calls"], "hA")
  /\ NRows("hA") = 2

(***************************************************************************)
(* The silver cleaners.  Under SpecSilver a bronze row carries the         *)
(* business columns the cleaners read next to the technical columns; every *)
(* value is NULL or text, as the loader stores it.  A NULL is the empty    *)
(* tuple and a value v is <<v>>.                                           *)
(***************************************************************************)
MaxTableRows == 2

MaxBronzeRows == 3

Null == <<>>

Some(v) == <<v>>

SomeOf(S) == {Some(v) : v \in S}

COALESCE(x, y) == IF x # Null THEN x ELSE y

CallNumbers == {"1", "01", "2"}

TsTexts == {"", "01/01/2024 10:00:00 AM", "2024-01-01 11:00:00"}

UnitIds == {"E1", "E2"}

RowIds == {"a", "b"}

IncidentNumbers == {"100", "0100"}

\* minutes after 2024-01-01 00:00:00 plus one; TIMESTAMP '1900-01-01' is 0
Ts1900 == Some(0)

\* try_strptime with the three formats, then try_cast; NULL when none parses
_parse_ts_sql(col) ==
  CASE col = Some("01/01/2024 10:00:00 AM") -> Some(601)
    [] col = Some("01/01/2024 10:30:00 AM") -> Some(631)
    [] col = Some("01/01/2024 11:00:00")    -> Some(661)
    [] col = Some("2024-01-01 11:00:00")    -> Some(661)
    [] OTHER                                -> Null

\* try_strptime with the two date formats, then try_cast: the timestamp of
\* the day's midnight, as the day of January 2024; NULL when none parses
_parse_date_sql(col) ==
  CASE col = Some("01/01/2024") -> Some(1)
    [] col = Some("2024-01-02") -> Some(2)
    [] OTHER                    -> Null

\* datediff('second', a, b) of two timestamps
datediff_second(a, b) == (b[1] - a[1]) * 60

\* CASE WHEN a IS NOT NULL AND b IS NOT NULL THEN
\*   CASE WHEN datediff('second', a, b) >= 0 THEN datediff(...) ELSE NULL END
\* ELSE NULL END
ElapsedSec(a, b) ==
  IF a # Null /\ b # Null
  THEN IF datediff_second(a, b) >= 0 THEN Some(datediff_second(a, b)) ELSE Null
  ELSE Null

\* try_cast(<text> AS INTEGER)
try_cast_integer(x) ==
  CASE x = Some("94102") -> Some(94102)
    [] x = Some("94103") -> Some(94103)
    [] OTHER             -> Null

\* try_cast(<text> AS BIGINT)
try_cast_bigint(x) ==
  CASE x = Some("1")    -> Some(1)
    [] x = Some("01")   -> Some(1)
    [] x = Some("2")    -> Some(2)
    [] x = Some("100")  -> Some(100)
    [] x = Some("0100") -> Some(100)
    [] OTHER            -> Null

\* VARCHAR comparison of the row ids
StrRank(v) == CASE v = "a" -> 1 [] v = "b" -> 2 [] OTHER -> 0

\* x sorts strictly before y under ORDER BY ... DESC (NULLS LAST is the default)
IntBefore(x, y) == x # Null /\ (y = Null \/ x[1] > y[1])

StrBefore(x, y) == x # Null /\ (y = Null \/ StrRank(x[1]) > StrRank(y[1]))

\* The header of a calls file without the optional columns.
CallsHeader ==
  <<"call_number", "incident_number", "call_date", "received_dt_tm",
    "dispatch_dt_tm", "on_scene_dt_tm", "unit_id">>

IncidentsHeader ==
  <<"incident_number", "call_number", "incident_date", "alarm_dt_tm",
    "close_dt_tm">>

\* The files the loader is given: a header and data rows of business values.
CallsSources ==
  LET plain == [call_number : SomeOf(CallNumbers),
                received_dt_tm : SomeOf(TsTexts), unit_id : SomeOf(UnitIds),
                incident_number : {Some("100")},
                call_date : {Some("01/01/2024")},
                dispatch_dt_tm : {Some("01/01/2024 10:30:00 AM")},
                on_scene_dt_tm : {Some("01/01/2024 10:30:00 AM")}]
      withId == [call_number : SomeOf(CallNumbers),
                 received_dt_tm : SomeOf(TsTexts), unit_id : SomeOf(UnitIds),
                 incident_number : {Some("100")},
                 call_date : {Some("01/01/2024")},
                 dispatch_dt_tm : {Some("01/01/2024 10:30:00 AM")},
                 on_scene_dt_tm : {Some("01/01/2024 10:30:00 AM")},
                 rowid : SomeOf(RowIds)]
  IN  UNION {
        [dataset : {"calls"},
         cols : {CallsHeader},
         rows : [1..n -> plain]]
        \cup
        [dataset : {"calls"},
         cols : {CallsHeader \o <<"rowid">>},
         rows : [1..n -> withId]]
        : n \in 1..MaxTableRows }

IncidentsSources ==
  UNION {
    [dataset : {"incidents"},
     cols : {IncidentsHeader},
     rows : [1..n -> [incident_number : SomeOf(IncidentNumbers),
                      call_number : SomeOf({"1", "2"}),
                      incident_date : {Some("2024-01-02")},
                      alarm_dt_tm : SomeOf({"", "01/01/2024 10:00:00 AM"}),
                      close_dt_tm : {Some("01/01/2024 10:30:00 AM")}]]]
    : n \in 1..MaxTableRows }

IngestionIdle == UNCHANGED <<dropDir, runs, log, registry, lake, task, flow>>

NoTable == [cols |-> <<>>, rows |-> <<>>]

\* Mutant: the target is created anew with the columns of the source.
MutLoadBronzeRecreates(table, src, at) ==
  [cols |-> src.cols \o tech_cols,
   rows |-> [i \in 1..Len(src.rows) |->
               [c \in Range(src.cols \o tech_cols) |->
                  IF c \in Range(src.cols) THEN src.rows[i][c] ELSE Some(at)]]]

\* The loader's table creation, schema evolution and INSERT for one new file
\* read at instant `at`, with the business columns: the target gets the
\* columns it lacks (NULL in the rows it holds), and each source row gets the
\* technical columns.
LoadBronze(table, src, at) ==
  LET desired_cols == src.cols \o tech_cols
      existing     == IF table.cols # <<>> THEN table.cols ELSE desired_cols
      IsNew(c)     == c \notin Range(existing)
      cols         == existing \o SelectSeq(desired_cols, IsNew)
      widened(r)   == [c \in Range(cols) |-> IF c \in DOMAIN r THEN r[c] ELSE Null]
      inserted(i)  == [c \in Range(cols) |->
                         CASE c = "_source_row_number" -> Some(i - 1)
                           [] c = "_source_sha256"     -> Some(at)
                           [] c = "_source_file_path"  -> Some(at)
                           [] c = "_ingested_at_utc"   -> Some(at)
                           [] c \in Range(src.cols)    -> src.rows[i][c]
                           [] OTHER                    -> Null]
  IN  [cols |-> cols,
       rows |-> [i \in 1..Len(table.rows) |-> widened(table.rows[i])]
                \o [i \in 1..Len(src.rows) |-> inserted(i)]]

\* The bronze tables the loader can have built from at most MaxTableRows rows
\* of the given files, each file at a later instant than the one before.
BronzeTables(sources) ==
  LET one == {LoadBronze(NoTable, src, 1) : src \in sources}
      two == {LoadBronze(t, src, 2) :
                t \in {u \in one : Len(u.rows) < MaxTableRows},
                src \in {v \in sources : Len(v.rows) = 1}}
  IN  {NoTable} \cup one \cup two

_table_cols(table) == Range(bronzeCols[table])

\* the first candidate that is a column, else None
_pick(cols, candidates) ==
  LET hits == {i \in 1..Len(candidates) : candidates[i] \in cols}
  IN  IF hits = {} THEN "None"
      ELSE candidates[CHOOSE i \in hits : \A j \in hits : i <= j]

_pick_or_null(cols, candidates) ==
  IF _pick(cols, candidates) = "None" THEN "NULL" ELSE _pick(cols, candidates)

\* the value of a SELECT item that is a column name or the literal NULL
Column(r, c) == IF c = "NULL" THEN Null ELSE r[c]

\* QUALIFY ROW_NUMBER() OVER (PARTITION BY ... ORDER BY ...) = 1: the row
\* sets it can keep.  part[i] is the partition key of rows[i] and before the
\* pairs <<j, i>> with rows[j] ordered before rows[i].  Rows that tie in the
\* order are numbered in any order.
RowNumberIsOne(rows, part, before) ==
  LET n        == Len(rows)
      parts    == {part[i] : i \in 1..n}
      first(p) == {i \in 1..n :
                     /\ part[i] = p
                     /\ \A j \in 1..n : part[j] = p => <<j, i>> \notin before}
  IN  {{rows[pick[p]] : p \in parts} :
         pick \in {f \in [parts -> 1..n] : \A p \in parts : f[p] \in first(p)}}

\* clean_silver_phase2, calls: the base row of a bronze row
Phase2CallsBase(r, calls_cols) ==
  LET received_ts == _parse_ts_sql(
                       r[_pick(calls_cols, <<"received_dt_tm", "received_dttm">>)])
      dispatch_ts == _parse_ts_sql(
                       r[_pick(calls_cols, <<"dispatch_dt_tm", "dispatch_dttm">>)])
      on_scene_ts == _parse_ts_sql(
                       r[_pick(calls_cols, <<"on_scene_dt_tm", "on_scene_dttm">>)])
  IN  [call_number |-> try_cast_bigint(r["call_number"]),
       incident_number |-> try_cast_bigint(r["incident_number"]),
       unit_id     |-> Column(r, _pick_or_null(calls_cols, <<"unit_id">>)),
       call_type   |-> Column(r, _pick_or_null(calls_cols, <<"call_type">>)),
       call_date   |-> _parse_date_sql(r["call_date"]),
       received_ts |-> received_ts,
       dispatch_ts |-> dispatch_ts,
       on_scene_ts |-> on_scene_ts,
       address     |-> Column(r, _pick_or_null(calls_cols, <<"address">>)),
       zipcode_of_incident |->
         try_cast_integer(
           Column(r, _pick_or_null(calls_cols, <<"zipcode_of_incident">>))),
       fire_prevention_district |->
         Column(r, _pick_or_null(calls_cols, <<"fire_prevention_district">>)),
       rowid       |-> Column(r, _pick_or_null(calls_cols, <<"rowid", "row_id">>)),
       ingested_ts |-> r["_ingested_at_utc"],
       response_time_sec  |-> ElapsedSec(received_ts, on_scene_ts),
       dispatch_delay_sec |-> ElapsedSec(received_ts, dispatch_ts),
       travel_time_sec    |-> ElapsedSec(dispatch_ts, on_scene_ts)]

Phase2CallsPart(b) == b.call_number

\* Mutant: the order stops at the received time.
MutPhase2CallsBefore(a, b) ==
  IntBefore(COALESCE(a.received_ts, Ts1900), COALESCE(b.received_ts, Ts1900))

\* received DESC, ingested DESC, rowid DESC
Phase2CallsBefore(a, b) ==
  LET ra == COALESCE(a.received_ts, Ts1900)
      rb == COALESCE(b.received_ts, Ts1900)
      ia == COALESCE(a.ingested_ts, Ts1900)
      ib == COALESCE(b.ingested_ts, Ts1900)
  IN  \/ IntBefore(ra, rb)
      \/ ra = rb /\ IntBefore(ia, ib)
      \/ ra = rb /\ ia = ib /\ StrBefore(a.rowid, b.rowid)

Phase2Calls ==
  LET calls_cols == _table_cols("calls")
      base == [i \in 1..Len(bronze["calls"]) |->
                 Phase2CallsBase(bronze["calls"][i], calls_cols)]
  IN  RowNumberIsOne(base,
        [i \in DOMAIN base |-> Phase2CallsPart(base[i])],
        {p \in (DOMAIN base) \X (DOMAIN base) :
           Phase2CallsBefore(base[p[1]], base[p[2]])})

\* clean_silver_phase2, incidents
Phase2IncidentsPart(r) ==
  <<try_cast_bigint(r["incident_number"]), try_cast_bigint(r["call_number"])>>

Phase2IncidentsBefore(a, b) ==
  LET aa == COALESCE(_parse_ts_sql(a["alarm_dt_tm"]), Ts1900)
      ab == COALESCE(_parse_ts_sql(b["alarm_dt_tm"]), Ts1900)
  IN  \/ IntBefore(aa, ab)
      \/ aa = ab /\ IntBefore(a["_ingested_at_utc"], b["_ingested_at_utc"])

IncidentsRow(r) ==
  LET inc_cols == _table_cols("incidents")
  IN  [incident_number |-> try_cast_bigint(r["incident_number"]),
       call_number     |-> try_cast_bigint(r["call_number"]),
       incident_date   |-> _parse_date_sql(r["incident_date"]),
       alarm_ts        |-> _parse_ts_sql(r["alarm_dt_tm"]),
       close_ts        |-> _parse_ts_sql(r["close_dt_tm"]),
       address         |-> Column(r, _pick_or_null(inc_cols, <<"address">>)),
       zipcode         |->
         try_cast_integer(
           Column(r, _pick_or_null(inc_cols, <<"zipcode", "zip_code">>))),
       primary_situation |->
         Column(r, _pick_or_null(inc_cols,
                                 <<"primary_situation", "primarysituation">>))]

Phase2Incidents ==
  {{IncidentsRow(r) : r \in kept} :
     kept \in RowNumberIsOne(bronze["incidents"],
       [i \in DOMAIN bronze["incidents"] |->
          Phase2IncidentsPart(bronze["incidents"][i])],
       {p \in (DOMAIN bronze["incidents"]) \X (DOMAIN bronze["incidents"]) :
          Phase2IncidentsBefore(bronze["incidents"][p[1]],
                                bronze["incidents"][p[2]])})}

\* The names the calls statement refers to are columns of bronze.calls: the
\* timestamp columns _pick resolved (a column it did not find is written
\* into the statement as None) and the columns named as they are.
CallsStatementBinds(calls_cols) ==
  /\ _pick(calls_cols, <<"dispatch_dt_tm", "dispatch_dttm">>) # "None"
  /\ _pick(calls_cols, <<"on_scene_dt_tm", "on_scene_dttm">>) # "None"
  /\ {"call_number", "incident_number", "call_date", "_ingested_at_utc"}
       \subseteq calls_cols

IncidentsStatementBinds(inc_cols) ==
  /\ _pick(inc_cols, <<"incident_number", "incidentnumber">>) # "None"
  /\ _pick(inc_cols, <<"call_number", "callnumber">>) # "None"
  /\ _pick(inc_cols, <<"incident_date", "incidentdate">>) # "None"
  /\ _pick(inc_cols, <<"alarm_dt_tm", "alarmdttm", "alarm_dt_tm">>) # "None"
  /\ _pick(inc_cols, <<"close_dt_tm", "closedttm">>) # "None"
  /\ "_ingested_at_utc" \in inc_cols

\* Mutant: the received column is resolved before the table is dropped.
MutRaisedNoReceived == [silver EXCEPT !.task = "clean_silver_phase2:RuntimeError"]

\* Lines 62-81: DROP TABLE IF EXISTS silver.calls_clean, then the
\* RuntimeError that names received_dt_tm and received_dttm
RaisedNoReceived ==
  [silver EXCEPT !.task = "clean_silver_phase2:RuntimeError",
                 !.calls_clean = {}, !.exists = @ \ {"calls_clean"}]

\* The Phase 2 cleaner: calls_clean is dropped and rebuilt, then
\* incidents_clean.  Without a received column (or without bronze.calls, whose
\* column set is then empty) it raises its RuntimeError after the first drop;
\* a statement that does not bind, or reads a missing table, raises the
\* engine's error after the drop that precedes it.
clean_silver_phase2 ==
  /\ IF _pick(_table_cols("calls"), <<"received_dt_tm", "received_dttm">>) = "None"
     THEN silver' = RaisedNoReceived
     ELSE IF ~ CallsStatementBinds(_table_cols("calls"))
     THEN silver' = [silver EXCEPT !.task = "clean_silver_phase2:BinderError",
                                   !.calls_clean = {},
                                   !.exists = @ \ {"calls_clean"}]
     ELSE \E calls \in Phase2Calls :
            IF ~ _table_exists("incidents")
               \/ ~ IncidentsStatementBinds(_table_cols("incidents"))
            THEN silver' = [silver EXCEPT
                              !.task = "clean_silver_phase2:BinderError",
                              !.calls_clean = calls,
                              !.incidents_clean = {},
                              !.exists = (@ \cup {"calls_clean"})
                                           \ {"incidents_clean"}]
            ELSE \E incidents \in Phase2Incidents :
                   silver' = [calls_clean |-> calls,
                              incidents_clean |-> incidents,
                              exists |-> {"calls_clean", "incidents_clean"},
                              task |-> "clean_silver_phase2"]
  /\ IngestionIdle
  /\ UNCHANGED <<bronzeCols, bronze, gold>>

\* clean_silver (Phase 1), calls
Phase1CallsPart(r) == try_cast_bigint(r["call_number"])

Phase1CallsBefore(a, b) ==
  LET calls_cols == _table_cols("calls")
      rowid_col  == _pick(calls_cols, <<"row_id", "rowid">>)
      has_calls_ingested == "_ingested_at_utc" \in calls_cols
      ra == COALESCE(_parse_ts_sql(a["received_dt_tm"]), Ts1900)
      rb == COALESCE(_parse_ts_sql(b["received_dt_tm"]), Ts1900)
      ia == IF has_calls_ingested THEN a["_ingested_at_utc"] ELSE Null
      ib == IF has_calls_ingested THEN b["_ingested_at_utc"] ELSE Null
  IN  \/ IntBefore(ra, rb)
      \/ ra = rb /\ IntBefore(ia, ib)
      \/ ra = rb /\ ia = ib /\ StrBefore(a[rowid_col], b[rowid_col])

Phase1CallsRow(r) ==
  [call_number |-> try_cast_bigint(r["call_number"]),
   incident_number |-> try_cast_bigint(r["incident_number"]),
   unit_id     |-> r["unit_id"],
   call_date   |-> _parse_date_sql(r["call_date"]),
   received_ts |-> _parse_ts_sql(r["received_dt_tm"]),
   dispatch_ts |-> _parse_ts_sql(r["dispatch_dt_tm"]),
   on_scene_ts |-> _parse_ts_sql(r["on_scene_dt_tm"]),
   response_time_sec  |-> ElapsedSec(_parse_ts_sql(r["received_dt_tm"]),
                                     _parse_ts_sql(r["on_scene_dt_tm"])),
   dispatch_delay_sec |-> ElapsedSec(_parse_ts_sql(r["received_dt_tm"]),
                                     _parse_ts_sql(r["dispatch_dt_tm"])),
   travel_time_sec    |-> ElapsedSec(_parse_ts_sql(r["dispatch_dt_tm"]),
                                     _parse_ts_sql(r["on_scene_dt_tm"])),
   row_id      |-> r[_pick(_table_cols("calls"), <<"row_id", "rowid">>)]]

Phase1Calls ==
  {{Phase1CallsRow(r) : r \in kept} :
     kept \in RowNumberIsOne(bronze["calls"],
       [i \in DOMAIN bronze["calls"] |-> Phase1CallsPart(bronze["calls"][i])],
       {p \in (DOMAIN bronze["calls"]) \X (DOMAIN bronze["calls"]) :
          Phase1CallsBefore(bronze["calls"][p[1]], bronze["calls"][p[2]])})}

\* clean_silver (Phase 1), incidents
Phase1IncidentsPart(r) == try_cast_bigint(r["incident_number"])

Phase1IncidentsBefore(a, b) ==
  IntBefore(COALESCE(_parse_ts_sql(a["alarm_dt_tm"]), Ts1900),
            COALESCE(_parse_ts_sql(b["alarm_dt_tm"]), Ts1900))

Phase1Incidents ==
  {{IncidentsRow(r) : r \in kept} :
     kept \in RowNumberIsOne(bronze["incidents"],
       [i \in DOMAIN bronze["incidents"] |->
          Phase1IncidentsPart(bronze["incidents"][i])],
       {p \in (DOMAIN bronze["incidents"]) \X (DOMAIN bronze["incidents"]) :
          Phase1IncidentsBefore(bronze["incidents"][p[1]],
                                bronze["incidents"][p[2]])})}

\* silver._pick_col finds a candidate for every column clean_silver resolves
PickColFindsAll(calls_cols, inc_cols) ==
  /\ \A candidates \in {<<"call_number", "callnumber">>,
                         <<"incident_number", "incidentnumber">>,
                         <<"received_dt_tm", "received_dttm">>,
                         <<"dispatch_dt_tm", "dispatch_dttm">>,
                         <<"on_scene_dt_tm", "on_scene_dttm">>,
                         <<"row_id", "rowid">>} :
       _pick(calls_cols, candidates) # "None"
  /\ \A candidates \in {<<"incident_number", "incidentnumber">>,
                         <<"call_number", "callnumber">>,
                         <<"incident_date", "incidentdate">>,
                         <<"alarm_dt_tm", "alarm_dttm", "alarmdttm">>,
                         <<"close_dt_tm", "close_dttm", "closedttm">>} :
       _pick(inc_cols, candidates) # "None"

\* The Phase 1 cleaner resolves every column name first (_pick_col raises its
\* ValueError, which names the candidates, when none exists), then drops and
\* rebuilds the two tables.
clean_silver ==
  /\ IF ~ _table_exists("calls") \/ ~ _table_exists("incidents")
     THEN silver' = [silver EXCEPT !.task = "clean_silver:raised"]
     ELSE IF ~ PickColFindsAll(_table_cols("calls"), _table_cols("incidents"))
     THEN silver' = [silver EXCEPT !.task = "clean_silver:ValueError"]
     ELSE \E calls \in Phase1Calls, incidents \in Phase1Incidents :
            silver' = [calls_clean |-> calls,
                       incidents_clean |-> incidents,
                       exists |-> {"calls_clean", "incidents_clean"},
                       task |-> "clean_silver"]
  /\ IngestionIdle
  /\ UNCHANGED <<bronzeCols, bronze, gold>>

\* The loader has run on some files; no cleaner has run yet.
SilverInit ==
  /\ \E calls \in BronzeTables(CallsSources),
        incidents \in BronzeTables(IncidentsSources) :
       /\ Len(calls.rows) + Len(incidents.rows) <= MaxBronzeRows
       /\ bronzeCols = [calls |-> calls.cols, incidents |-> incidents.cols]
       /\ bronze = [calls |-> calls.rows, incidents |-> incidents.rows]
  /\ dropDir = [f \in FileNames |-> NoFile]
  /\ runs = <<>>
  /\ log = <<>>
  /\ registry = {}
  /\ lake = {}
  /\ task = IdleTask
  /\ flow = IdleFlow
  /\ silver = NoSilver
  /\ gold = NoGold

SilverNext ==
  \/ clean_silver_phase2
  \/ clean_silver

SpecSilver == SilverInit /\ [][SilverNext]_vars

(***************************************************************************)
(* Properties of the silver cleaners (specification SpecSilver).           *)
(***************************************************************************)
\* The silver tables are the result of a completed rebuild.
Cleaned == silver.task \in {"clean_silver", "clean_silver_phase2"}

CallRows == {bronze["calls"][i] : i \in 1..Len(bronze["calls"])}

CallKey(r) == try_cast_bigint(r["call_number"])

ReceivedOf(r) == COALESCE(_parse_ts_sql(r["received_dt_tm"]), Ts1900)[1]

IngestedOf(r) == COALESCE(r["_ingested_at_utc"], Ts1900)[1]

RowIdOf(r) == IF "rowid" \in DOMAIN r THEN r["rowid"] ELSE Null

OrdinalOf(r) == r["_source_row_number"][1]

\* r comes after q in ascending (received, ingested, rowid), a NULL rowid
\* ranking below every value
GreaterByRowId(r, q) ==
  LET rank(x) == IF x = Null THEN 0 ELSE StrRank(x[1])
  IN  \/ ReceivedOf(r) > ReceivedOf(q)
      \/ ReceivedOf(r) = ReceivedOf(q) /\ IngestedOf(r) > IngestedOf(q)
      \/ /\ ReceivedOf(r) = ReceivedOf(q)
         /\ IngestedOf(r) = IngestedOf(q)
         /\ rank(RowIdOf(r)) > rank(RowIdOf(q))

\* r comes after q in ascending (received, ingested, source row ordinal)
GreaterByOrdinal(r, q) ==
  \/ ReceivedOf(r) > ReceivedOf(q)
  \/ ReceivedOf(r) = ReceivedOf(q) /\ IngestedOf(r) > IngestedOf(q)
  \/ /\ ReceivedOf(r) = ReceivedOf(q)
     /\ IngestedOf(r) = IngestedOf(q)
     /\ OrdinalOf(r) > OrdinalOf(q)

\* the calls_clean row s is the one the cleaner derives from the bronze row r
DerivedFrom(s, r) ==
  /\ s.call_number = CallKey(r)
  /\ s.unit_id = r["unit_id"]
  /\ s.received_ts = _parse_ts_sql(r["received_dt_tm"])
  /\ IF silver.task = "clean_silver"
     THEN s.row_id = RowIdOf(r)
     ELSE s.rowid = RowIdOf(r) /\ s.ingested_ts = r["_ingested_at_utc"]

\* last is the final sort key: "rowid" or "ordinal"
OneRowPerCallChosenBy(last) ==
  \A r \in CallRows :
    LET rows == {s \in silver.calls_clean : s.call_number = CallKey(r)}
    IN  /\ Cardinality(rows) = 1
        /\ \A s \in rows :
             \E m \in CallRows :
               /\ CallKey(m) = CallKey(r)
               /\ DerivedFrom(s, m)
               /\ \A q \in CallRows :
                    CallKey(q) = CallKey(r) =>
                      ~ IF last = "ordinal" THEN GreaterByOrdinal(q, m)
                                            ELSE GreaterByRowId(q, m)

C9_AsStated ==
  Cleaned =>
    \A i \in 1..Len(bronze["incidents"]) :
      Cardinality({s \in silver.incidents_clean :
                     s.incident_number =
                       try_cast_bigint(bronze["incidents"][i]["incident_number"])})
        = 1

(***************************************************************************)
(* The location dimension.  Under SpecGold a silver row carries the keys   *)
(* and the location columns build_dim_location reads: address stands for   *)
(* the text columns taken from calls with incidents as fallback, zipcode   *)
(* for the integer ones, fire_prevention_district for the calls-only one.  *)
(***************************************************************************)
MaxCleanCalls == 2

MaxCleanIncidents == 2

CleanCallRows(n) ==
  [call_number : {Some(n)},
   incident_number : {Null, Some(100)},
   address : {Null} \cup SomeOf({" ", "A", "A ", "A|"}),
   zipcode_of_incident : {Null, Some(94102)},
   fire_prevention_district : SomeOf({"", "1", "|"})]

CleanIncidentRows(n) ==
  [incident_number : {Some(100)},
   call_number : {Some(n)},
   address : {Null, Some("A")},
   zipcode : {Null, Some(94103)}]

\* The tables of at most max rows with the keys 1, 2, ...
\* rows[k] is the set of the rows of key k.
CleanTables(rows, max) ==
  UNION {{{f[k] : k \in 1..n} : f \in {g \in [1..n -> UNION {rows[k] : k \in 1..n}] :
                                        \A k \in 1..n : g[k] \in rows[k]}}
         : n \in 0..max}

\* The silver tables a cleaner has built.
GoldInit ==
  /\ \E calls \in CleanTables([k \in 1..MaxCleanCalls |-> CleanCallRows(k)],
                               MaxCleanCalls),
        incidents \in CleanTables([k \in 1..MaxCleanIncidents |->
                                     CleanIncidentRows(k)],
                                  MaxCleanIncidents) :
       silver = [calls_clean |-> calls, incidents_clean |-> incidents,
                 exists |-> {"calls_clean", "incidents_clean"},
                 task |-> "clean_silver_phase2"]
  /\ dropDir = [f \in FileNames |-> NoFile]
  /\ runs = <<>>
  /\ log = <<>>
  /\ registry = {}
  /\ lake = {}
  /\ bronzeCols = [d \in Datasets |-> <<>>]
  /\ bronze = [d \in Datasets |-> <<>>]
  /\ task = IdleTask
  /\ flow = IdleFlow
  /\ gold = NoGold

\* the rows of a set in some order
RECURSIVE SetToSeq(_)
SetToSeq(S) ==
  IF S = {} THEN <<>>
  ELSE LET x == CHOOSE y \in S : TRUE IN <<x>> \o SetToSeq(S \ {x})

TRIM(x) ==
  CASE x = Some(" ")  -> Some("")
    [] x = Some("A ") -> Some("A")
    [] OTHER          -> x

NULLIF(x, y) == IF x = y THEN Null ELSE x

\* CAST(<integer> AS VARCHAR)
CastVarchar(x) ==
  CASE x = Some(94102) -> Some("94102")
    [] x = Some(94103) -> Some("94103")
    [] OTHER           -> Null

\* WITH base: calls LEFT JOIN incidents ON incident_number
DimLocationBase ==
  LET NoIncident == [address |-> Null, zipcode |-> Null]
      joined(c) == {i \in silver.incidents_clean :
                      c.incident_number # Null
                      /\ i.incident_number = c.incident_number}
      right(c)  == IF joined(c) = {} THEN {NoIncident} ELSE joined(c)
      row(c, i) == [c_address |-> c.address,
                    c_zipcode |-> c.zipcode_of_incident,
                    c_fire_prevention_district |-> c.fire_prevention_district,
                    i_address |-> i.address,
                    i_zipcode |-> i.zipcode,
                    \* which joined pair this is: base is a bag
                    pair |-> <<c.call_number,
                               IF i = NoIncident THEN Null ELSE i.call_number>>]
  IN  SetToSeq(UNION {{row(c, i) : i \in right(c)} : c \in silver.calls_clean})

\* Mutant: SELECT without DISTINCT.
MutKeysNotDistinct(base) ==
  [n \in 1..Len(base) |->
     [address |-> NULLIF(TRIM(COALESCE(base[n].c_address, base[n].i_address)),
                         Some("")),
      zipcode |-> COALESCE(base[n].c_zipcode, base[n].i_zipcode),
      fire_prevention_district |->
        NULLIF(TRIM(base[n].c_fire_prevention_district), Some(""))]]

\* WITH keys: SELECT DISTINCT of the normalized columns
keys(base) ==
  SetToSeq({[address |-> NULLIF(TRIM(COALESCE(b.c_address, b.i_address)),
                                Some("")),
             zipcode |-> COALESCE(b.c_zipcode, b.i_zipcode),
             fire_prevention_district |->
               NULLIF(TRIM(b.c_fire_prevention_district), Some(""))]
            : b \in Range(base)})

\* md5 of a text: the digest is a value that determines the text (no two
\* texts of the model collide)
md5(text) == <<"md5", text>>

\* md5(COALESCE(address,'') || '|' || COALESCE(CAST(zipcode AS VARCHAR),'')
\*     || '|' || COALESCE(fire_prevention_district,''))
location_key(k) ==
  md5(COALESCE(k.address, Some(""))[1] \o "|" \o
      COALESCE(CastVarchar(k.zipcode), Some(""))[1] \o "|" \o
      COALESCE(k.fire_prevention_district, Some(""))[1])

\* row_number() OVER (): the numberings of n rows in any order
RowNumberings(n) == {f \in [1..n -> 1..n] : \A a, b \in 1..n : f[a] = f[b] => a = b}

\* row_number() OVER (ORDER BY location_key): the numberings it can give the
\* rows ks.  The digests are totally ordered (the order SetToSeq lists them
\* in stands for the order of their hexadecimal texts); rows of equal keys
\* are numbered in any order.
LocationIdNumberings(ks) ==
  LET sorted == SetToSeq({location_key(ks[n]) : n \in 1..Len(ks)})
      rank(n) == CHOOSE r \in 1..Len(sorted) : sorted[r] = location_key(ks[n])
  IN  {f \in RowNumberings(Len(ks)) :
         \A a, b \in 1..Len(ks) : rank(a) < rank(b) => f[a] < f[b]}

SilverTables == {"calls_clean", "incidents_clean"}

\* DROP TABLE IF EXISTS gold.<table>, then a CREATE TABLE that raises
GoldRaised(table, name) ==
  [gold EXCEPT ![table] = {}, !.exists = @ \ {table},
               !.task = name \o ":raised", !.src[table] = <<>>]

\* the silver tables a gold build reads
SilverContents == <<silver.calls_clean, silver.incidents_clean>>

build_dim_location ==
  /\ IF SilverTables \subseteq silver.exists
     THEN \E ks \in {keys(DimLocationBase)} :
            \E location_id \in LocationIdNumberings(ks) :
              gold' = [gold EXCEPT
                         !.dim_location =
                           {[location_id |-> location_id[n],
                             location_key |-> location_key(ks[n]),
                             address |-> ks[n].address,
                             zipcode |-> ks[n].zipcode,
                             fire_prevention_district |->
                               ks[n].fire_prevention_district]
                            : n \in 1..Len(ks)},
                         !.exists = @ \cup {"dim_location"},
                         !.task = "build_dim_location",
                         !.src["dim_location"] = <<SilverContents>>]
     ELSE gold' = GoldRaised("dim_location", "build_dim_location")
  /\ IngestionIdle
  /\ UNCHANGED <<bronzeCols, bronze, silver>>

GoldNext == build_dim_location

SpecGold == GoldInit /\ [][GoldNext]_vars

(***************************************************************************)
(* Properties of the location dimension (specification SpecGold).          *)
(***************************************************************************)
\* a joined pair of a calls_clean row and its incidents_clean row, if any
SourceTuples ==
  {<<c, i>> : c \in silver.calls_clean,
              i \in silver.incidents_clean
                      \cup {[incident_number |-> Null, call_number |-> Null,
                             address |-> Null, zipcode |-> Null]}}

IsJoined(p) ==
  LET c == p[1]
      i == p[2]
      matches == {j \in silver.incidents_clean :
                    c.incident_number # Null
                    /\ j.incident_number = c.incident_number}
  IN  IF matches = {} THEN i.incident_number = Null /\ i.call_number = Null
      ELSE i \in matches

\* the calls value, the incidents value when the calls value is NULL; then
\* trimmed; then NULL when blank
Text(c, i) ==
  LET v == IF c # Null THEN c ELSE i
      t == IF v = Some(" ") THEN Some("")
           ELSE IF v = Some("A ") THEN Some("A") ELSE v
  IN  IF t = Some("") THEN Null ELSE t

NormalizedTuple(p) ==
  <<Text(p[1].address, p[2].address),
    IF p[1].zipcode_of_incident # Null THEN p[1].zipcode_of_incident
    ELSE p[2].zipcode,
    Text(p[1].fire_prevention_district, Null)>>

DimTuple(d) == <<d.address, d.zipcode, d.fire_prevention_district>>

\* the location_id values the dimension holds for a source tuple
LocationIds(p) ==
  {d.location_id : d \in {e \in gold.dim_location :
                            DimTuple(e) = NormalizedTuple(p)}}

\* C10: after build_dim_location every joined source tuple has exactly one
\* dimension row and location_id, the row of its normalized tuple; two source
\* tuples have the same location_id exactly when their normalized tuples are
\* equal; and every dimension row is the tuple of some source.
C10_OneRowPerNormalizedTuple ==
  gold.task = "build_dim_location" =>
    /\ \A p \in {q \in SourceTuples : IsJoined(q)} :
         /\ Cardinality({d \in gold.dim_location :
                           DimTuple(d) = NormalizedTuple(p)}) = 1
         /\ Cardinality(LocationIds(p)) = 1
    /\ \A p, q \in {r \in SourceTuples : IsJoined(r)} :
         (NormalizedTuple(p) = NormalizedTuple(q))
           <=> (LocationIds(p) = LocationIds(q))
    /\ \A d \in gold.dim_location :
         \E p \in SourceTuples : IsJoined(p) /\ DimTuple(d) = NormalizedTuple(p)

\* two calls whose addresses differ as stored and agree once normalized share
\* a location_id, and a third source tuple has another
C10_Witness ==
  /\ gold.task = "build_dim_location"
  /\ \E p, q, r \in {t \in SourceTuples : IsJoined(t)} :
       /\ p[1].address = Some("A ")
       /\ q[1].address = Null /\ q[2].address = Some("A")
       /\ NormalizedTuple(p) = NormalizedTuple(q)
       /\ LocationIds(p) = LocationIds(q)
       /\ NormalizedTuple(r) # NormalizedTuple(p)
       /\ LocationIds(r) # LocationIds(p)
  /\ Cardinality(gold.dim_location) = 2

(***************************************************************************)
(* The gates, the other dimensions and the fact table.  Under SpecPipeline *)
(* the loader has built bronze from files that also carry call_type (it    *)
(* stands for the text columns of the incident type) and address (for the  *)
(* location columns); the Phase 2 cleaner, the gold builders and the gates *)
(* then run as tasks, in any order.                                        *)
(***************************************************************************)
MaxPipelineRows == 3

\* The k-th data row of a calls file: call number k, with or without an
\* incident number, a received time that does not parse or lies before or
\* after the dispatch and on-scene times, and with or without type and address.
PipelineCallRows(k) ==
  {[call_number     |-> Some(IF k = 1 THEN "1" ELSE "2"),
    incident_number |-> inc,
    call_date       |-> t[2],
    received_dt_tm  |-> t[1],
    dispatch_dt_tm  |-> Some("01/01/2024 10:30:00 AM"),
    on_scene_dt_tm  |-> Some("01/01/2024 10:30:00 AM"),
    unit_id         |-> Some("E1"),
    call_type       |-> a[1],
    address         |-> a[2]]
   : inc \in {Null, Some("100")},
     t \in {<<Some(""), Some("")>>,
            <<Some("01/01/2024 10:00:00 AM"), Some("01/01/2024")>>,
            <<Some("2024-01-01 11:00:00"), Some("01/01/2024")>>},
     a \in {<<Null, Null>>, <<Some("Fire"), Some("A ")>>}}

PipelineIncidentRows ==
  [incident_number : {Some("100")},
   call_number     : SomeOf({"1", "2"}),
   incident_date   : SomeOf({"", "2024-01-02"}),
   alarm_dt_tm     : {Some("01/01/2024 10:00:00 AM")},
   close_dt_tm     : {Some("01/01/2024 10:30:00 AM")},
   address         : {Some("A")}]

\* One file per dataset, of zero (header only) to MaxTableRows data rows.
PipelineCallsSources ==
  UNION {
    {[dataset |-> "calls",
      cols |-> CallsHeader \o <<"call_type", "address">>,
      rows |-> rows]
     : rows \in {f \in [1..n -> UNION {PipelineCallRows(k) : k \in 1..n}] :
                   \A k \in 1..n : f[k] \in PipelineCallRows(k)}}
    : n \in 0..MaxTableRows }

PipelineIncidentsSources ==
  UNION {
    [dataset : {"incidents"},
     cols : {IncidentsHeader \o <<"address">>},
     rows : [1..n -> PipelineIncidentRows]]
    : n \in 0..MaxTableRows }

\* The table the loader builds from one file, or no table.
PipelineTables(sources) ==
  {NoTable} \cup {LoadBronze(NoTable, src, 1) : src \in sources}

PipelineInit ==
  /\ \E calls \in PipelineTables(PipelineCallsSources),
        incidents \in PipelineTables(PipelineIncidentsSources) :
       /\ Len(calls.rows) + Len(incidents.rows) <= MaxPipelineRows
       /\ bronzeCols = [calls |-> calls.cols, incidents |-> incidents.cols]
       /\ bronze = [calls |-> calls.rows, incidents |-> incidents.rows]
  /\ dropDir = [f \in FileNames |-> NoFile]
  /\ runs = <<>>
  /\ log = <<>>
  /\ registry = {}
  /\ lake = {}
  /\ task = IdleTask
  /\ flow = IdleFlow
  /\ silver = NoSilver
  /\ gold = NoGold

\* CAST(strftime(d, '%Y%m%d') AS BIGINT) of a day of January 2024
DateId(d) == 20240100 + d

\* build_dim_date: the distinct non-null dates of the two silver tables
build_dim_date ==
  /\ IF SilverTables \subseteq silver.exists
     THEN LET all_dates ==
                {c.call_date : c \in {x \in silver.calls_clean : x.call_date # Null}}
                \cup {i.incident_date :
                        i \in {x \in silver.incidents_clean : x.incident_date # Null}}
          IN  gold' = [gold EXCEPT
                         !.dim_date = {[date_id |-> DateId(d[1]), date |-> d]
                                       : d \in all_dates},
                         !.exists = @ \cup {"dim_date"},
                         !.task = "build_dim_date",
                         !.src["dim_date"] = <<SilverContents>>]
     ELSE gold' = GoldRaised("dim_date", "build_dim_date")
  /\ IngestionIdle
  /\ UNCHANGED <<bronzeCols, bronze, silver>>

\* the columns of incidents_clean when the LEFT JOIN finds no incident
NullIncident ==
  [incident_number |-> Null, call_number |-> Null, incident_date |-> Null,
   alarm_ts |-> Null, close_ts |-> Null, address |-> Null, zipcode |-> Null,
   primary_situation |-> Null]

\* FROM silver.calls_clean c LEFT JOIN silver.incidents_clean i
\*   ON i.incident_number = c.incident_number
\* WHERE c.incident_number IS NOT NULL: the joined pairs <<c, i>>
JoinedWithIncident ==
  LET joined(c) == {i \in silver.incidents_clean :
                      i.incident_number = c.incident_number}
      right(c)  == IF joined(c) = {} THEN {NullIncident} ELSE joined(c)
  IN  UNION {{<<c, i>> : i \in right(c)}
             : c \in {x \in silver.calls_clean : x.incident_number # Null}}

\* VARCHAR order of the type texts
TextRank(v) == CASE v = "Fire" -> 1 [] v = "Medical" -> 2 [] OTHER -> 0

\* x sorts strictly before y under ORDER BY ... ASC (NULLS LAST)
TextBefore(x, y) == x # Null /\ (y = Null \/ TextRank(x[1]) < TextRank(y[1]))

\* WITH cleaned: the distinct trimmed tuples of the base rows that hold a
\* non-null type column
IncidentTypeCleaned ==
  {[call_type |-> NULLIF(TRIM(p[1].call_type), Some("")),
    primary_situation |-> NULLIF(TRIM(p[2].primary_situation), Some(""))]
   : p \in {q \in JoinedWithIncident :
              q[1].call_type # Null \/ q[2].primary_situation # Null}}

\* ORDER BY call_type, primary_situation
IncidentTypeBefore(a, b) ==
  \/ TextBefore(a.call_type, b.call_type)
  \/ a.call_type = b.call_type
     /\ TextBefore(a.primary_situation, b.primary_situation)

build_dim_incident_type ==
  /\ IF SilverTables \subseteq silver.exists
     THEN gold' = [gold EXCEPT
                     !.dim_incident_type =
                       {[incident_type_id |->
                           1 + Cardinality({u \in IncidentTypeCleaned :
                                              IncidentTypeBefore(u, t)}),
                         call_type |-> t.call_type,
                         primary_situation |-> t.primary_situation]
                        : t \in IncidentTypeCleaned},
                     !.exists = @ \cup {"dim_incident_type"},
                     !.task = "build_dim_incident_type",
                     !.src["dim_incident_type"] = <<SilverContents>>]
     ELSE gold' = GoldRaised("dim_incident_type", "build_dim_incident_type")
  /\ IngestionIdle
  /\ UNCHANGED <<bronzeCols, bronze, silver>>

\* Mutant: the fact build normalizes the address without TRIM.
MutLocKeysNoTrim(c, i) ==
  [address |-> NULLIF(COALESCE(c.address, i.address), Some("")),
   zipcode |-> COALESCE(c.zipcode_of_incident, i.zipcode),
   fire_prevention_district |->
     NULLIF(TRIM(c.fire_prevention_district), Some(""))]

\* WITH loc_keys: the location columns of a base row, normalized
loc_keys(c, i) ==
  [address |-> NULLIF(TRIM(COALESCE(c.address, i.address)), Some("")),
   zipcode |-> COALESCE(c.zipcode_of_incident, i.zipcode),
   fire_prevention_district |->
     NULLIF(TRIM(c.fire_prevention_district), Some(""))]

\* WITH d: COALESCE(incident_date, call_date) AS event_date
event_date(c, i) == COALESCE(i.incident_date, c.call_date)

\* Mutant: the duration is the plain difference.
MutDurationSigned(a, b) ==
  IF a # Null /\ b # Null THEN Some(datediff_second(a, b)) ELSE Null

\* CASE WHEN received_ts IS NOT NULL AND close_ts IS NOT NULL
\*       AND datediff('second', received_ts, close_ts) >= 0
\*      THEN datediff(...) ELSE NULL END AS incident_duration_sec
incident_duration_sec(received_ts, close_ts) ==
  IF received_ts # Null /\ close_ts # Null
     /\ datediff_second(received_ts, close_ts) >= 0
  THEN Some(datediff_second(received_ts, close_ts))
  ELSE Null

\* the values a LEFT JOIN gives a row: the key column of each matching row
\* of the dimension, NULL when none matches
LeftJoin(matches, column) ==
  IF matches = {} THEN {Null} ELSE {Some(m[column]) : m \in matches}

\* The rows of the final SELECT before they are numbered: the rows of d,
\* each with the keys of the dimension rows it joins.
FactRows ==
  LET d == {p \in JoinedWithIncident : event_date(p[1], p[2]) # Null}
      dd(p)  == {x \in gold.dim_date : x.date = event_date(p[1], p[2])}
      dl(p)  == {x \in gold.dim_location :
                   x.location_key = location_key(loc_keys(p[1], p[2]))}
      dit(p) == {x \in gold.dim_incident_type :
                   /\ x.call_type = NULLIF(TRIM(p[1].call_type), Some(""))
                   /\ x.primary_situation =
                        NULLIF(TRIM(p[2].primary_situation), Some(""))}
  IN  UNION {{[incident_number |-> p[1].incident_number,
               call_number |-> p[1].call_number,
               date_id |-> date_id,
               location_id |-> location_id,
               incident_type_id |-> incident_type_id,
               received_ts |-> p[1].received_ts,
               dispatch_ts |-> p[1].dispatch_ts,
               on_scene_ts |-> p[1].on_scene_ts,
               close_ts |-> p[2].close_ts,
               response_time_sec |-> p[1].response_time_sec,
               dispatch_delay_sec |-> p[1].dispatch_delay_sec,
               travel_time_sec |-> p[1].travel_time_sec,
               incident_duration_sec |->
                 incident_duration_sec(p[1].received_ts, p[2].close_ts),
               \* the incidents_clean row of the pair: the rows are a bag
               pair |-> p[2].call_number]
              : date_id \in LeftJoin(dd(p), "date_id"),
                location_id \in LeftJoin(dl(p), "location_id"),
                incident_type_id \in LeftJoin(dit(p), "incident_type_id")}
             : p \in d}

\* build_fact_incident: the table is dropped, then rebuilt from the silver
\* tables and the three dimensions; incident_id = row_number() OVER ().
build_fact_incident ==
  /\ IF /\ SilverTables \subseteq silver.exists
        /\ {"dim_date", "dim_location", "dim_incident_type"} \subseteq gold.exists
     THEN \E rows \in {SetToSeq(FactRows)} :
            \E incident_id \in RowNumberings(Len(rows)) :
              gold' = [gold EXCEPT
                         !.fact_incident =
                           {[incident_id |-> incident_id[n],
                             incident_number |-> rows[n].incident_number,
                             call_number |-> rows[n].call_number,
                             date_id |-> rows[n].date_id,
                             location_id |-> rows[n].location_id,
                             incident_type_id |-> rows[n].incident_type_id,
                             received_ts |-> rows[n].received_ts,
                             dispatch_ts |-> rows[n].dispatch_ts,
                             on_scene_ts |-> rows[n].on_scene_ts,
                             close_ts |-> rows[n].close_ts,
                             response_time_sec |-> rows[n].response_time_sec,
                             dispatch_delay_sec |-> rows[n].dispatch_delay_sec,
                             travel_time_sec |-> rows[n].travel_time_sec,
                             incident_duration_sec |->
                               rows[n].incident_duration_sec]
                            : n \in 1..Len(rows)},
                         !.exists = @ \cup {"fact_incident"},
                         !.task = "build_fact_incident",
                         !.src["fact_incident"] = <<SilverContents>>]
     ELSE gold' = GoldRaised("fact_incident", "build_fact_incident")
  /\ IngestionIdle
  /\ UNCHANGED <<bronzeCols, bronze, silver>>

(***************************************************************************)
(* gate.py and gate_gold.py: the quality gates.  Both open the database    *)
(* read-only; what a run leaves behind is its outcome (task).              *)
(***************************************************************************)
\* x < 0 in SQL: not true of NULL
Negative(x) == x # Null /\ x[1] < 0

\* the four SQL assertions of the silver gate: the violating rows
SilverSqlViolations ==
  {c \in silver.calls_clean :
     c.received_ts = Null \/ c.dispatch_ts = Null \/ Negative(c.response_time_sec)}
  \cup {i \in silver.incidents_clean : i.incident_number = Null}

\* CallsSchema and IncidentsSchema on the sampled rows (the sample of a table
\* of fewer rows than sample_n is the table): the rows that fail a check.
\* The column types of the data frames are taken to conform.
PanderaViolations ==
  {c \in silver.calls_clean :
     \/ c.call_number = Null \/ c.call_number[1] <= 0
     \/ c.received_ts = Null \/ c.dispatch_ts = Null
     \/ Negative(c.response_time_sec)
     \/ Negative(c.dispatch_delay_sec)
     \/ Negative(c.travel_time_sec)}
  \cup {i \in silver.incidents_clean :
          i.incident_number = Null \/ i.incident_number[1] <= 0}

validate_silver_quality ==
  /\ silver' = [silver EXCEPT !.task =
                  IF /\ SilverTables \subseteq silver.exists
                     /\ SilverSqlViolations = {}
                     /\ PanderaViolations = {}
                  THEN "validate_silver_quality"
                  ELSE "validate_silver_quality:raised"]
  /\ IngestionIdle
  /\ UNCHANGED <<bronzeCols, bronze, gold>>

\* the assertions of the gold gate after the first: the violating rows
GoldSqlViolations ==
  {f \in gold.fact_incident :
     \/ f.incident_number = Null
     \/ f.date_id = Null
     \/ f.location_id = Null
     \/ f.incident_type_id = Null
     \/ Negative(f.response_time_sec)
     \/ Negative(f.dispatch_delay_sec)
     \/ Negative(f.travel_time_sec)
     \/ Negative(f.incident_duration_sec)}

validate_gold_quality ==
  /\ gold' = [gold EXCEPT !.task =
                IF /\ "fact_incident" \in gold.exists
                   /\ gold.fact_incident # {}
                   /\ GoldSqlViolations = {}
                THEN "validate_gold_quality"
                ELSE "validate_gold_quality:raised"]
  /\ IngestionIdle
  /\ UNCHANGED <<bronzeCols, bronze, silver>>

PipelineNext ==
  \/ clean_silver_phase2
  \/ validate_silver_quality
  \/ build_dim_date
  \/ build_dim_incident_type
  \/ build_dim_location
  \/ build_fact_incident
  \/ validate_gold_quality

SpecPipeline == PipelineInit /\ [][PipelineNext]_vars

(***************************************************************************)
(* Properties of the gold tables and the gates (specification              *)
(* SpecPipeline).                                                          *)
(***************************************************************************)
\* The fact build was the last gold build, and it and the two dimension
\* builds before it read the same silver tables.
BuiltInOrderOnSameSilver ==
  /\ gold.task = "build_fact_incident"
  /\ gold.src["fact_incident"] # <<>>
  /\ gold.src["dim_date"] = gold.src["fact_incident"]
  /\ gold.src["dim_location"] = gold.src["fact_incident"]

\* C11: when build_dim_date, build_dim_location and build_fact_incident have
\* run in that order on the same silver tables, every row of fact_incident
\* has a non-null date_id and a non-null location_id.
C11_FactJoinsCovering ==
  BuiltInOrderOnSameSilver =>
    \A f \in gold.fact_incident : f.date_id # Null /\ f.location_id # Null

\* Two fact rows were built in that order; a location needed trimming and an
\* event date came from the incident.
C11_Witness ==
  /\ BuiltInOrderOnSameSilver
  /\ Cardinality(gold.fact_incident) = 2
  /\ \E l \in gold.dim_location : l.address = Some("A")
  /\ \E c \in silver.calls_clean : c.address = Some("A ")
  /\ \E f \in gold.fact_incident : f.date_id = Some(DateId(2))

\* the fact table was built from the silver tables as they are
FactBuiltFromSilver ==
  /\ "fact_incident" \in gold.exists
  /\ gold.src["fact_incident"] = <<SilverContents>>

\* C12 as stated: fact_incident holds exactly one row for each (call,
\* incident) pairing with a non-null incident number: no pair (call_number,
\* incident_number) is in two fact rows, and every calls_clean row with a
\* non-null incident_number has a fact row.
C12_AsStated ==
  (BuiltInOrderOnSameSilver /\ FactBuiltFromSilver) =>
    /\ \A f, g \in gold.fact_incident :
         (f.call_number = g.call_number /\ f.incident_number = g.incident_number)
           => f = g
    /\ \A c \in silver.calls_clean :
         c.incident_number # Null =>
           \E f \in gold.fact_incident :
             f.call_number = c.call_number
             /\ f.incident_number = c.incident_number

\* C12, first half alone: no pair (call_number, incident_number) is in two
\* fact rows.
C12_PairInOneRow ==
  (BuiltInOrderOnSameSilver /\ FactBuiltFromSilver) =>
    \A f, g \in gold.fact_incident :
      (f.call_number = g.call_number /\ f.incident_number = g.incident_number)
        => f = g

\* C12, second half alone: every calls_clean row with a non-null
\* incident_number has a fact row.
C12_EveryCallRepresented ==
  (BuiltInOrderOnSameSilver /\ FactBuiltFromSilver) =>
    \A c \in silver.calls_clean :
      c.incident_number # Null =>
        \E f \in gold.fact_incident :
          f.call_number = c.call_number
          /\ f.incident_number = c.incident_number

\* a measure is null or not negative, and non-null only between two
\* timestamps that parsed
MeasureValid(m, from, to) ==
  /\ m # Null => m[1] >= 0
  /\ m # Null => (from # Null /\ to # Null)

\* C13: in every row of calls_clean and of fact_incident, each of
\* response_time_sec, dispatch_delay_sec, travel_time_sec and
\* incident_duration_sec is null or at least 0, and is non-null only when
\* both of its endpoint timestamps parsed.
C13_MeasuresNullOrNonNegative ==
  /\ \A c \in silver.calls_clean :
       /\ MeasureValid(c.response_time_sec, c.received_ts, c.on_scene_ts)
       /\ MeasureValid(c.dispatch_delay_sec, c.received_ts, c.dispatch_ts)
       /\ MeasureValid(c.travel_time_sec, c.dispatch_ts, c.on_scene_ts)
  /\ \A f \in gold.fact_incident :
       /\ MeasureValid(f.response_time_sec, f.received_ts, f.on_scene_ts)
       /\ MeasureValid(f.dispatch_delay_sec, f.received_ts, f.dispatch_ts)
       /\ MeasureValid(f.travel_time_sec, f.dispatch_ts, f.on_scene_ts)
       /\ MeasureValid(f.incident_duration_sec, f.received_ts, f.close_ts)

\* The fact table holds a row received after its close and on-scene times,
\* whose negative differences became null, and a row with positive measures.
C13_Witness ==
  /\ \E f \in gold.fact_incident :
       /\ f.received_ts = Some(661) /\ f.close_ts = Some(631)
       /\ f.incident_duration_sec = Null
       /\ f.response_time_sec = Null
       /\ f.travel_time_sec = Some(0)
  /\ \E f \in gold.fact_incident :
       /\ f.incident_duration_sec = Some(1800)
       /\ f.response_time_sec = Some(1800)

\* what the silver gate guards, row by row
SilverRowsValid ==
  /\ \A c \in silver.calls_clean :
       /\ c.call_number # Null /\ c.received_ts # Null /\ c.dispatch_ts # Null
       /\ ~ Negative(c.response_time_sec)
       /\ ~ Negative(c.dispatch_delay_sec)
       /\ ~ Negative(c.travel_time_sec)
  /\ \A i \in silver.incidents_clean : i.incident_number # Null

\* what the gold gate guards, row by row
GoldRowsValid ==
  \A f \in gold.fact_incident :
    /\ f.incident_number # Null /\ f.date_id # Null
    /\ f.location_id # Null /\ f.incident_type_id # Null
    /\ ~ Negative(f.response_time_sec)
    /\ ~ Negative(f.dispatch_delay_sec)
    /\ ~ Negative(f.travel_time_sec)
    /\ ~ Negative(f.incident_duration_sec)

C14_GatesRaiseOnInvalidRows ==
  /\ silver.task = "validate_silver_quality" =>
       (SilverTables \subseteq silver.exists /\ SilverRowsValid)
  /\ gold.task = "validate_gold_quality" =>
       (gold.fact_incident # {} /\ GoldRowsValid)

\* C14, last sentence: a gate changes no table.
C14_GateChangesNoTable ==
  [][(\/ /\ silver' # silver
            /\ silver'.task \in {"validate_silver_quality",
                                 "validate_silver_quality:raised"}
         \/ /\ gold' # gold
            /\ gold'.task \in {"validate_gold_quality",
                               "validate_gold_quality:raised"})
     => /\ [silver' EXCEPT !.task = ""] = [silver EXCEPT !.task = ""]
        /\ [gold' EXCEPT !.task = ""] = [gold EXCEPT !.task = ""]
        /\ bronze' = bronze /\ bronzeCols' = bronzeCols]_vars

\* Both gates have passed on non-empty tables, and each has raised on rows
\* that exist.
C14_Witness ==
  /\ silver.task = "validate_silver_quality"
  /\ gold.task = "validate_gold_quality"
  /\ silver.calls_clean # {}

(***************************************************************************)
(* Properties of the flow and the ledger (specification Spec).             *)
(***************************************************************************)
\* The last flow run has ended; its detection classified a file as new
\* content, and every file it classified is still in the drop directory
\* with the content it had.
FlowEndedOnNewContent ==
  /\ flow.pc = "idle"
  /\ flow.invoked # <<>>
  /\ flow.outcome # "crashed"
  /\ \E k \in 1..Len(log) :
       log[k].run = flow.run /\ log[k].status \in {"PENDING", "DONE"}
  /\ \A k \in 1..Len(log) :
       log[k].run = flow.run => dropDir[log[k].file] = log[k].sha

\* C15 as stated: for a dropped CSV of call records one phase2_flow pass
\* completes (and leaves calls_clean built from it): a flow run that found
\* new content, with the files left in place, does not end in an exception.
C15_AsStated ==
  FlowEndedOnNewContent => flow.outcome # "failed"

\* C16: each detection cycle creates exactly one run record and leaves it
\* with a terminal status, SUCCESS if the scan loop completed (also with no
\* file) and FAILED only if an exception escaped it; no step changes the
\* record of an earlier cycle, and no later stage of the flow changes the
\* record of its own cycle.
C16_RunRecordSetOnce ==
  [][/\ Len(runs') \in {Len(runs), Len(runs) + 1}
     /\ \A r \in 1..Len(runs) : runs'[r] = runs[r]
     /\ Len(runs') = Len(runs) + 1 =>
          /\ task.name = "idle" /\ flow.pc = "idle"
          /\ runs'[Len(runs')].status \in {"SUCCESS", "FAILED"}
          /\ flow' # flow =>
               (runs'[Len(runs')].status = "FAILED" <=> flow'.outcome = "failed")]_vars

\* A first cycle failed, a second cycle succeeded and its flow went on to the
\* lake and bronze stages; both records are as their cycles left them.
C16_Witness ==
  /\ Len(runs) = 2
  /\ runs[1].status = "FAILED"
  /\ runs[2].status = "SUCCESS"
  /\ flow.run = 2
  /\ flow.invoked = <<"detect", "lake", "bronze">>

\* the entry without the fields the Lake Writer sets (lake_written_at goes
\* with lake_path)
WithoutLakeFields(e) == [e EXCEPT !.lake_path = NullPath]

C18_FingerprintFailureIsLogged ==
  [][(Len(runs') = Len(runs) + 1 /\ runs'[Len(runs')].status = "SUCCESS") =>
       LET new == SubSeq(log', Len(log) + 1, Len(log'))
       IN  /\ Len(new) = Cardinality(PresentFiles)
           /\ \A f \in PresentFiles :
                Cardinality({i \in 1..Len(new) : new[i].file = f}) = 1
           /\ \A i \in 1..Len(new) :
                /\ new[i].run = Len(runs')
                /\ new[i].status \in {"PENDING", "SKIPPED", "FAILED"}
                /\ new[i].status = "FAILED" =>
                     new[i].error_message \notin {"", "already_ingested"}
           /\ \E fpFail \in SUBSET PresentFiles :
                LET info == DetectInfo(fpFail, TRUE)
                IN  /\ fpFail = {new[i].file : i \in {j \in 1..Len(new) :
                                                       new[j].status = "FAILED"}}
                    /\ info.pending = CountStatus(new, "PENDING")
                    /\ info.skipped = CountStatus(new, "SKIPPED")
                    /\ info.failed = CountStatus(new, "FAILED")
                    /\ info.files = Len(new)
                    /\ info.pending + info.skipped + info.failed = info.files]_vars

\* A run that succeeded logged a FAILED entry for the first file of the scan
\* and classified the file after it.
C18_Witness ==
  \E i, j \in 1..Len(log) :
    /\ i < j /\ log[i].run = log[j].run
    /\ runs[log[i].run].status = "SUCCESS"
    /\ log[i].status = "FAILED" /\ log[i].error_message = "exception"
    /\ log[j].status = "PENDING"

(***************************************************************************)
(* run_pipeline_scheduled.py: the control flow of phase2_flow as a whole.  *)
(* Under SpecFlow every task call is taken by its result alone: it returns *)
(* (with the counts the flow branches on) or it raises.  In the program as *)
(* it stands the bronze stage of a run with PENDING files raises, so the   *)
(* stages after it are reached only under this reading.                    *)
(***************************************************************************)
MaxFlowRuns == 5

\* the task calls of phase2_flow, in program order (lines 16-55)
Phase2Stages ==
  <<"detect", "lake", "bronze", "silver", "silver_gate", "dim_date",
    "dim_incident_type", "dim_location", "fact_incident", "kpi_views",
    "gold_gate">>

StageIndex(stage) == CHOOSE n \in 1..Len(Phase2Stages) : Phase2Stages[n] = stage

\* Lines 16-22: a new flow run; detect_and_log_client_drop returns its
\* summary or raises.
Phase2Detect ==
  /\ flow.pc = "idle"
  /\ flow.run < MaxFlowRuns
  /\ \E raised \in BOOLEAN, pending \in 0..1 :
       flow' = FlowAfterDetect([run_id |-> flow.run + 1, raised |-> raised,
                                pending |-> pending, skipped |-> 0,
                                failed |-> 0, files |-> pending])
  /\ UNCHANGED <<dropDir, runs, log, registry, lake, bronzeCols, bronze, task,
                 silver, gold>>

\* Lines 25-58: the call the flow is at returns or raises.  The bronze stage
\* returns the number of rows it inserted; zero ends the run (lines 40-42).
Phase2Stage(stage) ==
  /\ flow.pc = stage
  /\ \E raised \in BOOLEAN, inserted_total \in 0..1 :
       LET called == [flow EXCEPT !.invoked = Append(@, stage)]
       IN  flow' =
             IF raised
               THEN [FlowRaised EXCEPT !.invoked = called.invoked]
             ELSE IF stage = "bronze" /\ inserted_total = 0
               THEN [called EXCEPT !.pc = "idle",
                                   !.outcome = "skipped_downstream"]
             ELSE IF stage = "gold_gate"
               THEN [called EXCEPT !.pc = "idle", !.outcome = "completed"]
             ELSE [called EXCEPT !.pc = Phase2Stages[StageIndex(stage) + 1]]
  /\ UNCHANGED <<dropDir, runs, log, registry, lake, bronzeCols, bronze, task,
                 silver, gold>>

FlowNext ==
  \/ Phase2Detect
  \/ \E n \in 2..Len(Phase2Stages) : Phase2Stage(Phase2Stages[n])

SpecFlow == Init /\ [][FlowNext]_vars

IsPrefix(s, t) == Len(s) <= Len(t) /\ \A n \in 1..Len(s) : s[n] = t[n]

\* C19: in phase2_flow the stages are invoked strictly in program order,
\* each only after the one before it returned; no stage is invoked twice in
\* a run, and once a stage has raised no later stage of that run is invoked
\* (no gold build follows a silver gate that raised).
C19_StagesInOrderUntilRaise ==
  [][/\ IsPrefix(flow'.invoked, Phase2Stages)
     /\ flow'.invoked # flow.invoked =>
          \/ /\ flow.pc = "idle"
             /\ flow'.run # flow.run
             /\ flow'.invoked = <<"detect">>
          \/ /\ flow.pc # "idle" /\ flow.outcome = ""
             /\ flow'.run = flow.run
             /\ flow'.invoked = Append(flow.invoked, flow.pc)
             /\ flow.pc = Phase2Stages[Len(flow.invoked) + 1]
     /\ (flow.outcome = "failed" /\ flow'.run = flow.run) =>
          flow'.invoked = flow.invoked]_vars

\* A run whose silver gate raised has ended there, with no gold build invoked.
C19_Witness ==
  /\ flow.outcome = "failed"
  /\ flow.pc = "idle"
  /\ flow.invoked = <<"detect", "lake", "bronze", "silver", "silver_gate">>

(***************************************************************************)
(* bronze.py: the Phase 1 batch ingest, which main_flow runs on the same   *)
(* database.  Under SpecBatch it is one more operation next to those of    *)
(* the Phase 2 ingestion.                                                  *)
(***************************************************************************)
\* the CSV main_flow passes for a table (CALLS_CSV, INCIDENTS_CSV)
RawPath(table_name) == [kind |-> "raw", dir |-> "data/raw", leaf |-> table_name]

\* its header after _sanitize_column_names
RawHeader(table_name) ==
  IF table_name = "calls" THEN <<"call_number", "received_dttm">>
  ELSE <<"incident_number", "alarm_dttm">>

\* its data rows: the table gets the CSV's columns only, so a row carries no
\* content hash
RawRows(table_name) ==
  <<[rn |-> 0, sha |-> "", path |-> RawPath(table_name)]>>

\* ingest_bronze: read the CSV (an unreadable file raises before anything is
\* written), then DROP TABLE IF EXISTS and CREATE TABLE ... AS SELECT.
ingest_bronze(table_name) ==
  /\ task.name = "idle"
  /\ flow.pc = "idle"
  /\ \E readable \in BOOLEAN :
       IF readable
         THEN /\ bronzeCols' = [bronzeCols EXCEPT ![table_name] = RawHeader(table_name)]
              /\ bronze' = [bronze EXCEPT ![table_name] = RawRows(table_name)]
         ELSE UNCHANGED <<bronzeCols, bronze>>
  /\ UNCHANGED <<dropDir, runs, log, registry, lake, task, flow, silver, gold>>

BatchNext ==
  \/ Next
  \/ \E table_name \in Datasets : ingest_bronze(table_name)

SpecBatch == Init /\ [][BatchNext]_vars

\* C20 as stated: bronze is append-only: no operation deletes or rewrites a
\* row that is in bronze.calls or bronze.incidents, so every content hash in
\* ingested_contents keeps its rows in bronze.
C20_AsStated ==
  [][/\ \A d \in Datasets : IsPrefix(bronze[d], bronze'[d])
     /\ \A e \in registry' :
          \E d \in Datasets : \E i \in 1..Len(bronze'[d]) :
            bronze'[d][i].sha = e.sha]_vars

(***************************************************************************)
(* Rebuilds of the gold tables (specifications SpecPipeline and SpecGold). *)
(***************************************************************************)
\* the task that builds a gold table
GoldBuildOf(t) == "build_" \o t

\* The step runs the build of gold table t again: the gold task before it
\* was the same build, it read the silver tables as they are now, and no
\* other gold table has changed in between.
IsRebuildOf(t) ==
  /\ gold.task = GoldBuildOf(t)
  /\ gold'.task = GoldBuildOf(t)
  /\ gold.src[t] = <<SilverContents>>
  /\ silver' = silver

\* C21 as stated: a gold build step run again on unchanged silver tables
\* leaves its table with the same rows and the same surrogate key values.
C21_AsStated ==
  [][\A t \in GoldTables : IsRebuildOf(t) => gold'[t] = gold[t]]_vars

\* The three dimension builds are idempotent on the pipeline's inputs.
C21_DimensionRebuildIsSame ==
  [][\A t \in GoldTables \ {"fact_incident"} :
       IsRebuildOf(t) => gold'[t] = gold[t]]_vars

\* The rebuilt fact table holds the same rows up to incident_id.
C21_FactRebuildSameButIds ==
  [][IsRebuildOf("fact_incident") =>
       {[c \in DOMAIN f \ {"incident_id"} |-> f[c]] : f \in gold'.fact_incident}
         = {[c \in DOMAIN f \ {"incident_id"} |-> f[c]] : f \in gold.fact_incident}
    ]_vars

\* C27 as stated: location_key is unique in gold.dim_location.
C27_AsStated ==
  gold.task = "build_dim_location" =>
    \A d, e \in gold.dim_location : d.location_key = e.location_key => d = e

\* Rows of different location_key keep the order of their keys across
\* rebuilds; only rows that share a key can exchange their location_id.
C27_CollidingRowsAreDistinctTuples ==
  gold.task = "build_dim_location" =>
    \A d, e \in gold.dim_location :
      (d.location_key = e.location_key /\ d # e) =>
        /\ DimTuple(d) # DimTuple(e)
        /\ d.location_id # e.location_id

(***************************************************************************)
(* Schema evolution of the bronze loader.  Under SpecLoads the loader is   *)
(* given one new file after the other; the files of a dataset differ in    *)
(* their optional columns, and every bronze row carries its values.        *)
(***************************************************************************)
MaxLoads == 3

\* the value a one-row file holds in a column
LoadValue(c, n) ==
  CASE c = "call_number"     -> Some(n)
    [] c = "incident_number" -> Some("100")
    [] c = "call_date"       -> Some("01/01/2024")
    [] c = "incident_date"   -> Some("2024-01-02")
    [] c = "rowid"           -> Some("a")
    [] c = "unit_id"         -> Some("E1")
    [] c = "call_type"       -> Some("Fire")
    [] c = "address"         -> Some("A")
    [] OTHER                 -> Some("01/01/2024 10:00:00 AM")

\* The files: one data row each, with or without the optional columns.
LoadSources ==
  {[dataset |-> h[1], cols |-> h[2],
    rows |-> <<[c \in Range(h[2]) |-> LoadValue(c, n)]>>]
   : h \in {<<"calls", CallsHeader>>,
            <<"calls", CallsHeader \o <<"rowid">>>>,
            <<"calls", CallsHeader \o <<"call_type", "address">>>>,
            <<"incidents", IncidentsHeader>>,
            <<"incidents", IncidentsHeader \o <<"address">>>>},
     n \in {"1", "2"}}

\* The loop body of ingest_bronze_incremental for a file of new content
\* (steps 4-8: CREATE TABLE, schema evolution, INSERT).
IngestNewFile(src) ==
  /\ Len(bronze[src.dataset]) < MaxLoads
  /\ \E t \in {LoadBronze([cols |-> bronzeCols[src.dataset],
                           rows |-> bronze[src.dataset]], src,
                          Len(bronze["calls"]) + Len(bronze["incidents"]) + 1)} :
       /\ bronzeCols' = [bronzeCols EXCEPT ![src.dataset] = t.cols]
       /\ bronze' = [bronze EXCEPT ![src.dataset] = t.rows]
  /\ IngestionIdle
  /\ UNCHANGED <<silver, gold>>

LoadsNext == \E src \in LoadSources : IngestNewFile(src)

SpecLoads == Init /\ [][LoadsNext]_vars

\* the step loads file src into bronze.<d>
IsLoadOf(src, d) ==
  /\ src.dataset = d
  /\ Len(bronze'[d]) = Len(bronze[d]) + Len(src.rows)
  /\ \A i \in 1..Len(bronze'[d]) : Range(src.cols) \subseteq DOMAIN bronze'[d][i]
  /\ \A i \in 1..Len(src.rows) : \A c \in Range(src.cols) :
       bronze'[d][Len(bronze[d]) + i][c] = src.rows[i][c]

\* C22: a load of the bronze loader leaves the target with the columns it
\* had, in their order, followed by the source columns and technical columns
\* it lacked: no column is removed, the column set is the union of the one
\* before and of the source's; the rows already there keep their values and
\* hold NULL in the added columns, the rows of the file hold NULL in every
\* column the file lacks.  Every row has exactly the columns of its table.
C22_ColumnsOnlyAdded ==
  [][\A d \in Datasets :
       (bronzeCols'[d] # bronzeCols[d] \/ bronze'[d] # bronze[d]) =>
         \E src \in LoadSources :
           /\ IsLoadOf(src, d)
           /\ IsPrefix(bronzeCols[d], bronzeCols'[d])
           /\ Range(bronzeCols'[d])
                = Range(bronzeCols[d]) \cup Range(src.cols) \cup Range(tech_cols)
           /\ \A i \in 1..Len(bronze'[d]) :
                /\ DOMAIN bronze'[d][i] = Range(bronzeCols'[d])
                /\ \A c \in Range(bronzeCols'[d]) :
                     IF i <= Len(bronze[d])
                     THEN bronze'[d][i][c] = IF c \in Range(bronzeCols[d])
                                             THEN bronze[d][i][c] ELSE Null
                     ELSE c \notin (Range(src.cols) \cup Range(tech_cols))
                            => bronze'[d][i][c] = Null
    ]_vars

\* bronze.calls has taken a file with rowid and a file with call_type: it has
\* both columns, and each file's row is NULL in the other file's column
C22_Witness ==
  /\ {"rowid", "call_type"} \cup Range(tech_cols) \subseteq Range(bronzeCols["calls"])
  /\ \E i, j \in 1..Len(bronze["calls"]) :
       /\ bronze["calls"][i]["rowid"] # Null
       /\ bronze["calls"][i]["call_type"] = Null
       /\ bronze["calls"][j]["rowid"] = Null
       /\ bronze["calls"][j]["call_type"] # Null

(***************************************************************************)
(* Dataset-type detection and lake snapshots (specification Spec).         *)
(***************************************************************************)
\* The rule as stated: an incident-number column alone means incidents, a
\* call-number column alone means calls, and with both the path decides,
\* incidents by default.  (No statement when neither column is present.)
DatasetRule(cols, path) ==
  LET has_inc  == "incident_number" \in Range(cols)
      has_call == "call_number" \in Range(cols)
  IN  IF has_inc /\ has_call
        THEN IF InPath("call", path) THEN "calls" ELSE "incidents"
      ELSE IF has_call THEN "calls"
      ELSE "incidents"

\* the step is the iteration of write_pending_to_lake that wrote ledger row k
LakeWrote(k) ==
  /\ task.name = "lake"
  /\ k \in task.todo
  /\ task'.name = "idle" \/ k \notin task'.todo
  /\ log' # log
  /\ log'[k].lake_path # NullPath

\* the step is the loop body of the loader that inserted ledger row k
LoaderInserted(k) ==
  /\ task.name = "bronze" /\ task.phase = "insert"
  /\ task'.name = "bronze" /\ task'.phase = "mark" /\ task'.cur = k

HasKeyColumn(cols) ==
  "incident_number" \in Range(cols) \/ "call_number" \in Range(cols)

\* C23 as stated, Lake Writer: the dataset directory of the snapshot it
\* writes for a file is the one the rule gives for the file's columns and path.
C23_AsStated ==
  [][\A k \in 1..Len(log) :
       (LakeWrote(k) /\ HasKeyColumn(sanitize_columns(Header(log[k].sha)))) =>
         log'[k].lake_path.dir =
           "fire_" \o DatasetRule(sanitize_columns(Header(log[k].sha)),
                                  CsvPath(log[k].file))]_vars

\* The Bronze Loader follows the rule, on the path it reads from.
C23_LoaderFollowsRule ==
  [][\A k \in 1..Len(log) :
       LoaderInserted(k) =>
         \E source_path \in {IF log[k].lake_path # NullPath THEN log[k].lake_path
                             ELSE CsvPath(log[k].file)} :
           HasKeyColumn(_get_source_cols_duckdb(source_path)) =>
             task'.dataset =
               DatasetRule(_get_source_cols_duckdb(source_path), source_path)]_vars

\* the step is an iteration of write_pending_to_lake that wrote the snapshot
\* of ledger row k (the iteration did not raise)
LakeIteration(k) ==
  /\ task.name = "lake"
  /\ k \in task.todo
  /\ task'.name = "idle" \/ k \notin task'.todo
  /\ task' # task
  /\ flow'.outcome # "failed"

\* C24 as stated: write_pending_to_lake writes a snapshot only for a PENDING
\* row of its run that has no lake path yet, and never writes a path of the
\* lake that has been written before.
C24_AsStated ==
  [][\A k \in 1..Len(log) :
       LakeIteration(k) =>
         /\ log[k].run = task.run
         /\ log[k].status = "PENDING"
         /\ log[k].lake_path = NullPath
         /\ log'[k].lake_path \notin lake]_vars

\* The rows it writes are PENDING rows of its run.
C24_OnlyPendingOfRun ==
  [][\A k \in 1..Len(log) :
       LakeIteration(k) =>
         /\ log[k].run = task.run
         /\ log[k].status = "PENDING"
         /\ log'[k].lake_path \in lake']_vars

(***************************************************************************)
(* The cleaners on bronze tables that lack columns.  Under SpecColumns the *)
(* files of a dataset have every column the cleaners read or lack one      *)
(* timestamp column; the loader appends a file to its table, the Phase 1   *)
(* batch ingest replaces the table by a file, and the two cleaners run at  *)
(* any time.                                                               *)
(***************************************************************************)
MaxColumnRows == 2

Without(cols, c) == SelectSeq(cols, LAMBDA x : x # c)

\* The files: one data row each.
ColumnSources ==
  {[dataset |-> h[1], cols |-> h[2],
    rows |-> <<[c \in Range(h[2]) |-> LoadValue(c, "1")]>>]
   : h \in {<<"calls", CallsHeader \o <<"rowid">>>>,
            <<"calls", Without(CallsHeader \o <<"rowid">>, "received_dt_tm")>>,
            <<"calls", Without(CallsHeader \o <<"rowid">>, "dispatch_dt_tm")>>,
            <<"incidents", IncidentsHeader>>,
            <<"incidents", Without(IncidentsHeader, "alarm_dt_tm")>>}}

\* bronze.ingest_bronze on a file with its values: DROP TABLE IF EXISTS,
\* then CREATE TABLE ... AS SELECT * of the file (no technical columns).
IngestBronzeBatch(src) ==
  /\ bronzeCols' = [bronzeCols EXCEPT ![src.dataset] = src.cols]
  /\ bronze' = [bronze EXCEPT ![src.dataset] = src.rows]
  /\ IngestionIdle
  /\ UNCHANGED <<silver, gold>>

\* The loader on a file, while its table is below the bound.
IngestColumnsFile(src) ==
  /\ Len(bronze[src.dataset]) < MaxColumnRows
  /\ IngestNewFile(src)

ColumnsNext ==
  \/ \E src \in ColumnSources : IngestColumnsFile(src)
  \/ \E src \in ColumnSources : IngestBronzeBatch(src)
  \/ clean_silver_phase2
  \/ clean_silver

SpecColumns == Init /\ [][ColumnsNext]_vars

\* A cleaner has run and changed the silver state.
CleanerActed == silver' # silver

\* Both bronze tables exist and one of them has no column for a timestamp
\* the cleaners read (received, dispatch, on scene; alarm, close).
CallsLackTimestamp ==
  \E candidates \in {<<"received_dt_tm", "received_dttm">>,
                     <<"dispatch_dt_tm", "dispatch_dttm">>,
                     <<"on_scene_dt_tm", "on_scene_dttm">>} :
    _pick(_table_cols("calls"), candidates) = "None"

IncidentsLackTimestamp ==
  \E candidates \in {<<"alarm_dt_tm", "alarm_dttm", "alarmdttm">>,
                     <<"close_dt_tm", "close_dttm", "closedttm">>} :
    _pick(_table_cols("incidents"), candidates) = "None"

LacksTimestamp ==
  /\ _table_exists("calls") /\ _table_exists("incidents")
  /\ CallsLackTimestamp \/ IncidentsLackTimestamp

\* The cleaner did not build table t in this step: the table is absent
\* afterwards, or it is the table of the previous build.
NotBuiltNow(t) ==
  \/ t \notin silver'.exists
  \/ t \in silver.exists /\ t \in silver'.exists /\ silver'[t] = silver[t]

\* C25 as stated: when bronze has no variant of a required timestamp column,
\* the cleaner aborts with the error that names the candidates (the
\* RuntimeError of clean_silver_phase2, the ValueError of clean_silver).
C25_AsStated ==
  [][(CleanerActed /\ LacksTimestamp)
       => silver'.task \in {"clean_silver_phase2:RuntimeError",
                            "clean_silver:ValueError"}]_vars

\* What holds of C25: the cleaner aborts, with one of its own errors or
\* with the engine's, and the table whose timestamp column is missing is not
\* built in that run.
C25_AbortsAndBuildsNothing ==
  [][(CleanerActed /\ LacksTimestamp)
       => /\ silver'.task \in {"clean_silver_phase2:RuntimeError",
                               "clean_silver_phase2:BinderError",
                               "clean_silver:ValueError"}
          /\ CallsLackTimestamp => NotBuiltNow("calls_clean")
          /\ IncidentsLackTimestamp => NotBuiltNow("incidents_clean")]_vars

\* C30: when clean_silver_phase2 raises because bronze.calls has no received
\* column, silver.calls_clean does not exist afterwards and
\* silver.incidents_clean is as the previous run left it.
C30_RaiseDropsCallsKeepsIncidents ==
  [][(CleanerActed /\ silver'.task = "clean_silver_phase2:RuntimeError")
       => /\ _pick(_table_cols("calls"),
                   <<"received_dt_tm", "received_dttm">>) = "None"
          /\ "calls_clean" \notin silver'.exists
          /\ silver'.calls_clean = {}
          /\ silver'.incidents_clean = silver.incidents_clean
          /\ ("incidents_clean" \in silver'.exists)
               <=> ("incidents_clean" \in silver.exists)]_vars

\* The raise has happened on a database where an earlier run had built both
\* tables: incidents_clean is still there with its rows, calls_clean is gone.
C30_Witness ==
  /\ silver.task = "clean_silver_phase2:RuntimeError"
  /\ "calls_clean" \notin silver.exists
  /\ "incidents_clean" \in silver.exists
  /\ silver.incidents_clean # {}
  /\ _table_exists("calls")

(***************************************************************************)
(* The incident-type key of the fact rows (specification SpecPipeline).    *)
(***************************************************************************)
\* The fact build was the last gold build, and it and the dim_incident_type
\* build before it read the same silver tables.
TypeBuiltOnSameSilver ==
  /\ gold.task = "build_fact_incident"
  /\ gold.src["fact_incident"] # <<>>
  /\ gold.src["dim_incident_type"] = gold.src["fact_incident"]

\* C28 as stated: when build_dim_incident_type and build_fact_incident have
\* run on the same silver tables, every row of fact_incident has a non-null
\* incident_type_id, also a row whose type values are all null.
C28_AsStated ==
  TypeBuiltOnSameSilver =>
    \A f \in gold.fact_incident : f.incident_type_id # Null

\* What holds of C28: a fact row without an incident_type_id is there only
\* when a base row of the fact table has no type value at all; a row with a
\* type value is covered.
C28_NullOnlyWithoutTypeValues ==
  (TypeBuiltOnSameSilver /\ gold.src["fact_incident"] = <<SilverContents>>) =>
    ((\E f \in gold.fact_incident : f.incident_type_id = Null)
       => \E p \in JoinedWithIncident :
            /\ event_date(p[1], p[2]) # Null
            /\ p[1].call_type = Null /\ p[2].primary_situation = Null)

(***************************************************************************)
(* What a returning flow run leaves downstream (specification Spec).       *)
(***************************************************************************)
\* This step is the return of a phase2_flow run without an exception: the
\* no-op of lines 20-22, the skip of lines 40-42 or the end at line 58.
FlowReturns ==
  /\ flow' # flow
  /\ flow'.pc = "idle"
  /\ flow'.outcome \in {"noop", "skipped_downstream", "completed"}

\* A bronze table holds rows and its silver table does not exist.
SilverBehindBronze(rows, exists) ==
  \/ rows["calls"] # <<>> /\ "calls_clean" \notin exists
  \/ rows["incidents"] # <<>> /\ "incidents_clean" \notin exists

\* C26 as stated: whenever phase2_flow returns without error, silver and gold
\* reflect the bronze contents; in particular no bronze table with rows is
\* without its silver table.
C26_AsStated ==
  [][FlowReturns => ~ SilverBehindBronze(bronze', silver'.exists)]_vars

\* What holds of C26: a run returns without error only through the no-op
\* branch or the skip, having rebuilt nothing, and it leaves bronze, silver
\* and gold as it found them.
C26_ReturnsOnlyAsNoOp ==
  [][FlowReturns
       => /\ flow'.outcome \in {"noop", "skipped_downstream"}
          /\ UNCHANGED <<bronzeCols, bronze, silver, gold>>]_vars

(***************************************************************************)
(* Ledger entries of earlier runs (specification Spec).                    *)
(***************************************************************************)
\* C29: a ledger entry is changed only by a task invoked for the entry's own
\* run id, so an entry left PENDING by a run whose bronze load failed is not
\* changed by a later run; a later detection logs the file again, as a new
\* entry of its own run that is PENDING if the content is not registered;
\* and when a content is registered, the entry set to DONE is a PENDING
\* entry of the loading run.
C29_EntriesOfOtherRunsUntouched ==
  [][/\ Len(log') >= Len(log)
     /\ \A k \in 1..Len(log) :
          log'[k] # log[k] =>
            /\ task.name \in {"lake", "bronze"}
            /\ task.run = log[k].run
     /\ \A k \in (Len(log) + 1)..Len(log') :
          /\ log'[k].run = Len(runs')
          /\ \A j \in 1..Len(log) : log[j].run < log'[k].run
          /\ (log'[k].status # "FAILED"
              /\ ~ _is_already_successfully_ingested(PipelineName, log'[k].sha))
               => log'[k].status = "PENDING"
     /\ \A c \in registry' \ registry :
          \E k \in 1..Len(log) :
            /\ log[k].run = task.run /\ log[k].sha = c.sha
            /\ log[k].status = "PENDING" /\ log'[k].status = "DONE"]_vars

\* A flow run wrote the snapshot of a file and its bronze load raised; a
\* later detection logged the file again and the content was loaded and
\* registered through the new entry, the old one being PENDING still.
C29_Witness ==
  /\ flow.outcome = "failed"
  /\ flow.invoked = <<"detect", "lake", "bronze">>
  /\ \E k1, k2 \in 1..Len(log) :
       /\ log[k1].run = flow.run /\ log[k1].run < log[k2].run
       /\ log[k1].file = log[k2].file /\ log[k1].sha = log[k2].sha
       /\ log[k1].status = "PENDING" /\ log[k1].lake_path # NullPath
       /\ log[k2].status = "DONE"
       /\ _is_already_successfully_ingested(PipelineName, log[k2].sha)

====
